---- MODULE Spec2Model ----
(***************************************************************************)
(* Verification model of the UPA queue-dashboard scraper:                  *)
(*   core/storage.py  - the disk-backed TTL cache (load/save/get/set)      *)
(*   core/scraper.py  - fetch_html, the direct-HTTP retry loop and the     *)
(*                      Selenium/PowerBI rendered pipeline                 *)
(*   app.py           - _fetch_one and load_all_upas (the worker pool)     *)
(*                                                                         *)
(* Three specifications share the module:                                  *)
(*   SpecCache  - one caller issuing get_cached/set_cached sequentially    *)
(*   SpecFetch  - one call of fetch_html                                   *)
(*   Spec       - load_all_upas: pool workers running _fetch_one           *)
(***************************************************************************)
EXTENDS Integers, Sequences, FiniteSets, TLC

\* ------------------------------------------------------------------ bounds
NKeys == 2        \* cache keys (URLs) 1..NKeys
NData == 2        \* distinct ParsedMetrics values
MaxNow == 2       \* wall clock runs over 0..MaxNow
MaxTtl == 2       \* ttl arguments 0..MaxTtl

\* Python's None in an integer-valued field.
Null == -1

Keys == 1..NKeys
Times == 0..MaxNow
Ttls == 0..MaxTtl

\* ------------------------------------------------------- ParsedMetrics
COLORS == <<"AZUL", "VERDE", "AMARELO", "LARANJA", "VERMELHO">>

ColorSet == {COLORS[i] : i \in 1..Len(COLORS)}

\* The dict parse_upa_dashboard returns: every field present, absent data is
\* None.  Metrics(n) is the n-th distinct value (n patients in the unit, n in
\* the AZUL class).
Metrics(n) ==
  [updated_at |-> Null,
   pacientes_unidade |-> n,
   pacientes_regulacao |-> Null,
   pacientes_at_medico |-> Null,
   classificacoes |->
     [c \in ColorSet |->
        [pacientes |-> IF c = "AZUL" THEN n ELSE Null, tempo_medio |-> Null]]]

Data == {Metrics(n) : n \in 1..NData}

\* ------------------------------------------------------ the cache file
\* What CACHE_FILE holds.  kind:
\*   "missing"  os.path.exists is false
\*   "garbage"  exists, json.load raises (empty, truncated, garbled)
\*   "nonmap"   decodes to a JSON value that is not an object
\*   "map"      decodes to an object; body is the sequence of its members
\* A member is <<key, item>>; an item is what the key maps to:
\*   shape "falsy"   null, 0, "", [], {}
\*   shape "scalar"  a truthy value that is not an object
\*   shape "rec"     an object; ts is its "_ts" (NoTs: no such member,
\*                   BadTs: not a number), data its "data" (NoData: none)
NoTs == -1
BadTs == -2
NoData == [none |-> TRUE]

Rec(ts, d) == [shape |-> "rec", ts |-> ts, data |-> d]
FalsyItem == [shape |-> "falsy", ts |-> NoTs, data |-> NoData]
ScalarItem == [shape |-> "scalar", ts |-> NoTs, data |-> NoData]

MissingFile == [kind |-> "missing", body |-> <<>>]
GarbageFile == [kind |-> "garbage", body |-> <<>>]
NonMapFile == [kind |-> "nonmap", body |-> <<>>]
MapFile(body) == [kind |-> "map", body |-> body]

\* What json.load hands back: a dict (a function on the keys present) or a
\* value that is not a dict.
EmptyDict == [isdict |-> TRUE, d |-> [k \in {} |-> FalsyItem]]
NotADict == [isdict |-> FALSE, d |-> [k \in {} |-> FalsyItem]]

\* json.load of a decodable object: members in file order, a later member
\* replacing an earlier one with the same key.
RECURSIVE JsonLoad(_)
JsonLoad(body) ==
  IF body = <<>> THEN [k \in {} |-> FalsyItem]
  ELSE LET n == Len(body)
           rest == JsonLoad(SubSeq(body, 1, n - 1))
           last == body[n]
       IN [k \in (DOMAIN rest) \cup {last[1]} |->
             IF k = last[1] THEN last[2] ELSE rest[k]]

\* json.dump of a dict: one member per key.
RECURSIVE JsonDumpFrom(_, _)
JsonDumpFrom(d, ks) ==
  IF ks = {} THEN <<>>
  ELSE LET k == CHOOSE x \in ks : \A y \in ks : x <= y
       IN <<(<<k, d[k]>>)>> \o JsonDumpFrom(d, ks \ {k})

JsonDump(d) == JsonDumpFrom(d, DOMAIN d)

\* load_cache(): {} when the file is missing or does not decode, otherwise
\* whatever json.load returns.
load_cache(f) ==
  CASE f.kind = "missing" -> EmptyDict
    [] f.kind = "garbage" -> EmptyDict
    [] f.kind = "nonmap" -> NotADict
    [] OTHER -> [isdict |-> TRUE, d |-> JsonLoad(f.body)]

\* Results of a call: a returned value, None, or a raised exception.
RetNone == [kind |-> "none", v |-> NoData, exc |-> ""]
RetVal(v) == [kind |-> "value", v |-> v, exc |-> ""]
Raise(e) == [kind |-> "raise", v |-> NoData, exc |-> e]

\* Mutant of IsStale: an entry exactly ttl old is already stale.
IsStaleAtBoundary(t, ts, ttl) == (t - ts) >= ttl

\* The staleness test of get_cached: (_now() - ts) > ttl_seconds.
IsStale(t, ts, ttl) == (t - ts) > ttl

\* get_cached(url, ttl_seconds) read at wall-clock time t.
get_cached(f, url, ttl, t) ==
  LET cache == load_cache(f)
  IN IF ~cache.isdict THEN Raise("AttributeError")
     ELSE IF url \notin DOMAIN cache.d THEN RetNone
     ELSE LET item == cache.d[url]
          IN CASE item.shape = "falsy" -> RetNone
               [] item.shape = "scalar" -> Raise("AttributeError")
               [] OTHER ->
                    IF item.ts = BadTs THEN Raise("TypeError")
                    ELSE IF IsStale(t, IF item.ts = NoTs THEN 0 ELSE item.ts, ttl)
                         THEN RetNone
                    ELSE IF item.data = NoData THEN RetNone
                    ELSE RetVal(item.data)

\* Mutant of DictSet: setdefault, an existing member is kept.
DictSetKeepOld(d, url, item) ==
  [k \in (DOMAIN d) \cup {url} |-> IF k \in DOMAIN d THEN d[k] ELSE item]

\* cache[url] = {"_ts": _now(), "data": data} on the loaded dict.
DictSet(d, url, item) ==
  [k \in (DOMAIN d) \cup {url} |-> IF k = url THEN item ELSE d[k]]

\* set_cached up to the call of save_cache: the dict to be saved, or the
\* exception the item assignment raises on a value that is not a dict.
set_cached_update(f, url, data, t) ==
  LET cache == load_cache(f)
  IN IF ~cache.isdict THEN [ok |-> FALSE, d |-> cache.d]
     ELSE [ok |-> TRUE, d |-> DictSet(cache.d, url, Rec(t, data))]

\* save_cache(cache) has three outcomes: it raises before open() truncated
\* the file (makedirs or open failed), it raises after (the dump or the
\* flush failed and the file is left truncated), or it writes the dump.
SaveOutcomes == {"ok", "raise_before", "raise_after"}

save_cache(f, d, outcome) ==
  CASE outcome = "ok" -> MapFile(JsonDump(d))
    [] outcome = "raise_before" -> f
    [] OTHER -> GarbageFile

\* ============================================================ scraper.py
MaxRetries == 3   \* retries arguments 0..MaxRetries
MaxFrames == 2    \* at most this many iframe elements on a page

\* retries=2: what fetch_html passes to fetch_html_requests in auto mode.
AutoRetries == 2

\* _wait_for_metrics_loaded, in ticks of the 0.5 s it sleeps: the largest
\* timeout, the longest a read of page_source takes, the longest a sleep
\* takes.
MaxWait == 3
MaxPollTicks == 1
MaxSleepTicks == 2

\* ------------------------------------------------------------- markup
\* A document is the set of text tokens it contains.
TokVisual == "visualContainerHost"
TokFrameRef == "https://app.powerbi.com/view?r=1"
TokMetric == "Pacientes na Unidade 12"
TokPlain == "Em manutencao"

Tokens == {TokVisual, TokFrameRef, TokMetric, TokPlain}

\* str.lower() of a token.
LowerTok(t) ==
  CASE t = TokVisual -> "visualcontainerhost"
    [] t = TokFrameRef -> "https://app.powerbi.com/view?r=1"
    [] t = TokMetric -> "pacientes na unidade 12"
    [] OTHER -> "em manutencao"

Lower(html) == {LowerTok(t) : t \in html}

\* The substring relation, on the lowercase tokens and the markers.
SubstringPairs ==
  {<<"visualcontainerhost", "visualcontainerhost">>,
   <<"visualcontainer", "visualcontainerhost">>,
   <<"app.powerbi.com", "https://app.powerbi.com/view?r=1">>}

IsIn(m, html_lower) == \E t \in html_lower : <<m, t>> \in SubstringPairs

PowerBIMarkers ==
  {"visualcontainerhost", "visual-container", "visualcontainer",
   "powerbireport", "relatório do power bi", "reportembed", "app.powerbi.com"}

\* _is_powerbi_rendered(html_lower): any marker occurs in the text.
is_powerbi_rendered(html_lower) == \E m \in PowerBIMarkers : IsIn(m, html_lower)

\* str.upper() of a token.
UpperTok(t) ==
  CASE t = TokVisual -> "VISUALCONTAINERHOST"
    [] t = TokFrameRef -> "HTTPS://APP.POWERBI.COM/VIEW?R=1"
    [] t = TokMetric -> "PACIENTES NA UNIDADE 12"
    [] OTHER -> "EM MANUTENCAO"

Upper(html) == {UpperTok(t) : t \in html}

\* The patterns of _wait_for_metrics_loaded, named by what they match (\s+
\* written as one blank, the colour names between word boundaries).
MetricPatterns ==
  {"PACIENTES NA UNIDADE", "AGUARDANDO REGULA", "ATENDIMENTO", "CLASSIF",
   "AZUL|VERDE|AMARELO|LARANJA|VERMELHO"}

\* re.search(p, t), on the patterns and the tokens as they are: the
\* patterns are upper case, so only upper-case text matches.
SearchPairs ==
  {<<"PACIENTES NA UNIDADE", "PACIENTES NA UNIDADE 12">>}

Search(p, text) == \E t \in text : <<p, t>> \in SearchPairs

\* Mutant of metrics_found: every markup counts as loaded.
metrics_found_always(up) == TRUE

\* any(re.search(p, up) for p in patterns)
metrics_found(up) == \E p \in MetricPatterns : Search(p, up)

EmptyDoc == {}
PlainDoc == {TokPlain}
FrameRefDoc == {TokPlain, TokFrameRef}
ShellDoc == {TokVisual}
ReportDoc == {TokVisual, TokMetric}

Markups == {EmptyDoc, PlainDoc, FrameRefDoc, ShellDoc, ReportDoc}

\* ------------------------------------------------- fetch_html_requests
RETRYABLE == {429, 503, 502, 504}

\* The final status codes a GET may answer with.
Statuses == {200, 404, 500} \cup RETRYABLE

\* Response.raise_for_status(): HTTPError on 4xx and 5xx.
RaisesForStatus(st) == 400 <= st /\ st < 600

\* Mutant of MoreAttempts: range(1, retries + 2).
MoreAttemptsOffByOne(attempt, n) == attempt <= n + 1

\* for attempt in range(1, retries + 1): the loop goes on.
MoreAttempts(attempt, n) == attempt <= n

\* What one pass of the loop body does with the outcome of the GET:
\* "return" the FetchResult, or "continue" to the next pass.
HttpPass(resp) ==
  IF resp.exc THEN "continue"
  ELSE IF resp.status \in RETRYABLE THEN "continue"
  ELSE IF RaisesForStatus(resp.status) THEN "continue"
  ELSE "return"

\* Outcomes of fetch_html_requests / fetch_html_selenium_powerbi / fetch_html.
Pending == [kind |-> "pending", via |-> "", html |-> EmptyDoc, status |-> 0,
            iframe_url |-> <<>>, msg |-> "", cause |-> ""]
FetchResult(status, html, via, iframe_url) ==
  [kind |-> "ok", via |-> via, html |-> html, status |-> status,
   iframe_url |-> iframe_url, msg |-> "", cause |-> ""]
FetchError(msg, status, cause) ==
  [kind |-> "error", via |-> "", html |-> EmptyDoc, status |-> status,
   iframe_url |-> <<>>, msg |-> msg, cause |-> cause]

MsgHttp == "[scraper] Falha ao baixar"
MsgSelenium == "[scraper] Falha Selenium/PowerBI"

\* The retries fetch_html hands to fetch_html_requests.
HttpRetries(m, retriesArg) == IF m = "auto" THEN AutoRetries ELSE retriesArg

\* Mutant of AutoKeepsDirect: any successful download is returned.
AutoKeepsAnyDirect(r) == r.kind = "ok"

\* fetch_html, mode auto: the direct result is returned when the download
\* succeeded and its text already shows the report.
AutoKeepsDirect(r) == r.kind = "ok" /\ is_powerbi_rendered(Lower(r.html))

\* ------------------------------------------ fetch_html_selenium_powerbi
\* An attribute value is a sequence of characters; SP is a blank.
SP == " "

RECURSIVE LStrip(_)
LStrip(a) == IF a # <<>> /\ Head(a) = SP THEN LStrip(Tail(a)) ELSE a

RECURSIVE RStrip(_)
RStrip(a) ==
  IF a # <<>> /\ a[Len(a)] = SP THEN RStrip(SubSeq(a, 1, Len(a) - 1)) ELSE a

\* str.strip()
Strip(a) == RStrip(LStrip(a))

\* The iframe elements a page may hold: their src and data-src attributes
\* (an absent attribute reads as the empty string).
ElNoSrc == [src |-> <<>>, data_src |-> <<SP>>]
ElLazy == [src |-> <<SP>>, data_src |-> <<"l", "z">>]
ElShort == [src |-> <<SP, "s", "h", SP>>, data_src |-> <<>>]
ElLong == [src |-> <<"l", "n", "g">>, data_src |-> <<"x">>]

FrameElems == {ElNoSrc, ElLazy, ElShort, ElLong}

\* None as an address.
NoSrc == <<>>

\* _get_iframe_src(el): src, else data-src, stripped; None when both are
\* empty.
get_iframe_src(el) ==
  LET src == Strip(el.src)
  IN IF src # <<>> THEN src ELSE Strip(el.data_src)

\* Mutant of BestSrcFrom: an address as long as the best so far replaces
\* it.
RECURSIVE BestSrcFromLast(_, _)
BestSrcFromLast(els, best) ==
  IF els = <<>> THEN best
  ELSE LET s == get_iframe_src(Head(els))
       IN BestSrcFromLast(Tail(els),
            IF s # NoSrc /\ (best = NoSrc \/ Len(s) >= Len(best)) THEN s ELSE best)

\* The loop that picks best_src: a later address replaces the best so far
\* only when it is strictly longer.
RECURSIVE BestSrcFrom(_, _)
BestSrcFrom(els, best) ==
  IF els = <<>> THEN best
  ELSE LET s == get_iframe_src(Head(els))
       IN BestSrcFrom(Tail(els),
            IF s # NoSrc /\ (best = NoSrc \/ Len(s) > Len(best)) THEN s ELSE best)

BestSrc(els) == BestSrcFrom(els, NoSrc)

\* Sequences of iframe elements find_elements may return.
FrameLists == UNION {[1..n -> FrameElems] : n \in 0..MaxFrames}

\* last_exc = last_exc or e, in the outer handler.
FirstExc(last, e) == IF last # "" THEN last ELSE e

\* ================================================================ app.py
NTargets == 2     \* entries of the registry UPAS_DF
MaxWorkers == 2   \* max_workers arguments 1..MaxWorkers

Targets == 1..NTargets

\* items = list(UPAS_DF.items()): target i has URL i; names are numbered in
\* their sorting order, which is the reverse of the registry's order.
Registry == [i \in Targets |-> [nome |-> NTargets + 1 - i, url |-> i]]

\* A URL that is in no registry entry (a target dropped from UPAS_DF).
OldUrl == 0

\* The page fetch_html returns shows n patients; parse_upa_dashboard reads
\* them off it.  The dashboard of target i shows i patients.
Page(n) == [patients |-> n]
parse_upa_dashboard(html) == Metrics(html.patients)

\* _flatten_row(upa_nome, url, data)
flatten_row(nome, url, data) ==
  [upa |-> nome, url |-> url,
   updated_at |-> data.updated_at,
   pacientes_unidade |-> data.pacientes_unidade,
   pacientes_regulacao |-> data.pacientes_regulacao,
   pacientes_at_medico |-> data.pacientes_at_medico,
   azul_pacientes |-> data.classificacoes["AZUL"].pacientes,
   azul_tempo_medio |-> data.classificacoes["AZUL"].tempo_medio,
   verde_pacientes |-> data.classificacoes["VERDE"].pacientes,
   verde_tempo_medio |-> data.classificacoes["VERDE"].tempo_medio,
   amarelo_pacientes |-> data.classificacoes["AMARELO"].pacientes,
   amarelo_tempo_medio |-> data.classificacoes["AMARELO"].tempo_medio,
   laranja_pacientes |-> data.classificacoes["LARANJA"].pacientes,
   laranja_tempo_medio |-> data.classificacoes["LARANJA"].tempo_medio,
   vermelho_pacientes |-> data.classificacoes["VERMELHO"].pacientes,
   vermelho_tempo_medio |-> data.classificacoes["VERMELHO"].tempo_medio]

\* The row load_all_upas builds in its except clause; erro is str(e).
error_row(nome, url, e) ==
  [upa |-> nome, url |-> url,
   updated_at |-> Null,
   pacientes_unidade |-> Null,
   pacientes_regulacao |-> Null,
   pacientes_at_medico |-> Null,
   azul_pacientes |-> Null,
   azul_tempo_medio |-> Null,
   verde_pacientes |-> Null,
   verde_tempo_medio |-> Null,
   amarelo_pacientes |-> Null,
   amarelo_tempo_medio |-> Null,
   laranja_pacientes |-> Null,
   laranja_tempo_medio |-> Null,
   vermelho_pacientes |-> Null,
   vermelho_tempo_medio |-> Null,
   erro |-> e]

MetricFields ==
  {"updated_at", "pacientes_unidade", "pacientes_regulacao",
   "pacientes_at_medico", "azul_pacientes", "azul_tempo_medio",
   "verde_pacientes", "verde_tempo_medio", "amarelo_pacientes",
   "amarelo_tempo_medio", "laranja_pacientes", "laranja_tempo_medio",
   "vermelho_pacientes", "vermelho_tempo_medio"}

\* A future: not finished, finished with the row _fetch_one returned, or
\* finished with the exception it raised.
FutPending == [kind |-> "pending", row |-> <<>>, exc |-> ""]
FutRow(r) == [kind |-> "row", row |-> r, exc |-> ""]
FutExc(e) == [kind |-> "raise", row |-> <<>>, exc |-> e]

\* Mutant of collect_row: a failed unit is skipped.
collect_row_skip_failed(rs, f, nome, url) ==
  IF f.kind = "raise" THEN rs ELSE Append(rs, f.row)

\* The body of the as_completed loop: rows.append(fut.result()), or the
\* error row when the unit raised.
collect_row(rs, f, nome, url) ==
  IF f.kind = "raise" THEN Append(rs, error_row(nome, url, f.exc))
  ELSE Append(rs, f.row)

\* Mutant of InsertByUpa: the row goes to the end, no sorting.
InsertByUpaAtEnd(sorted, r) == Append(sorted, r)

\* df.sort_values("upa", kind="stable"): stable insertion by name.
RECURSIVE InsertByUpa(_, _)
InsertByUpa(sorted, r) ==
  IF sorted = <<>> THEN <<r>>
  ELSE IF sorted[Len(sorted)].upa <= r.upa THEN Append(sorted, r)
  ELSE Append(InsertByUpa(SubSeq(sorted, 1, Len(sorted) - 1), r),
              sorted[Len(sorted)])

RECURSIVE SortByUpa(_)
SortByUpa(rs) ==
  IF rs = <<>> THEN <<>>
  ELSE InsertByUpa(SortByUpa(SubSeq(rs, 1, Len(rs) - 1)), rs[Len(rs)])

\* Mutant of IsHit: the cached value is never used.
IsHitNever(res) == FALSE

\* `if cached:` in _fetch_one: a hit is a returned, non-empty dict.
IsHit(res) == res.kind = "value"

\* ===================================================== parser.py: text
\* A text is a sequence of characters.  The characters the model writes
\* texts with: digits, the colon, the blank and one letter.
MaxToks == 3      \* pieces a text handed to _pick_patient_count is made of

DigitChars == <<"0", "1", "2", "3", "4", "5", "6", "7", "8", "9">>
IsDigit(c) == \E i \in 1..Len(DigitChars) : DigitChars[i] = c
DigitVal(c) == (CHOOSE i \in 1..Len(DigitChars) : DigitChars[i] = c) - 1
Letter == "p"
\* \w of the regular expressions: letters and digits.
IsWordChar(c) == IsDigit(c) \/ c = Letter

\* \d{2}:\d{2}:\d{2} matches at position i of s.
ClockAt(s, i) ==
  /\ i + 7 <= Len(s)
  /\ IsDigit(s[i]) /\ IsDigit(s[i + 1]) /\ s[i + 2] = ":"
  /\ IsDigit(s[i + 3]) /\ IsDigit(s[i + 4]) /\ s[i + 5] = ":"
  /\ IsDigit(s[i + 6]) /\ IsDigit(s[i + 7])

\* Mutant of sub_clocks: nothing is removed.
sub_clocks_none(s) == s

\* re.sub(r"\d{2}:\d{2}:\d{2}", " ", text): the matches, leftmost first and
\* not overlapping, are each replaced by one blank.
RECURSIVE sub_clocks(_)
sub_clocks(s) ==
  IF s = <<>> THEN <<>>
  ELSE IF ClockAt(s, 1) THEN <<SP>> \o sub_clocks(SubSeq(s, 9, Len(s)))
  ELSE <<s[1]>> \o sub_clocks(Tail(s))

\* The maximal runs of \w characters of s, in order.
RECURSIVE WordRuns(_, _, _)
WordRuns(s, cur, acc) ==
  LET closed == IF cur = <<>> THEN acc ELSE Append(acc, cur)
  IN IF s = <<>> THEN closed
     ELSE IF IsWordChar(s[1]) THEN WordRuns(Tail(s), Append(cur, s[1]), acc)
     ELSE WordRuns(Tail(s), <<>>, closed)

AllDigits(run) == \A i \in 1..Len(run) : IsDigit(run[i])

\* int(n) of a digit string
RECURSIVE IntOf(_)
IntOf(run) ==
  IF run = <<>> THEN 0
  ELSE 10 * IntOf(SubSeq(run, 1, Len(run) - 1)) + DigitVal(run[Len(run)])

\* re.findall(r"\b\d+\b", text2): a match starts and ends at a word
\* boundary, so it is a whole run of \w characters that are all digits.
findall_ints(s) == SelectSeq(WordRuns(s, <<>>, <<>>), AllDigits)

RECURSIVE MapIntOf(_)
MapIntOf(runs) ==
  IF runs = <<>> THEN <<>> ELSE <<IntOf(runs[1])>> \o MapIntOf(Tail(runs))

\* _extract_int_candidates(text)
extract_int_candidates(text) == MapIntOf(findall_ints(sub_clocks(text)))

YEARS == {2020, 2021, 2022, 2023, 2024, 2025, 2026}
MaxCount == 9999

\* Mutant of Plausible: the calendar years are let through.
PlausibleWithYears(n) == 0 <= n /\ n <= MaxCount

\* The filter of _pick_patient_count.
Plausible(n) == 0 <= n /\ n <= MaxCount /\ n \notin YEARS

\* `for t in texts: if t: all_candidates.extend(...)`
RECURSIVE AllCandidates(_)
AllCandidates(texts) ==
  IF texts = <<>> THEN <<>>
  ELSE (IF texts[1] = <<>> THEN <<>> ELSE extract_int_candidates(texts[1]))
         \o AllCandidates(Tail(texts))

\* _pick_patient_count(*texts): None is Null.
pick_patient_count(texts) ==
  LET filtered == SelectSeq(AllCandidates(texts), Plausible)
  IN IF filtered = <<>> THEN Null ELSE filtered[1]

\* What the texts handed to _pick_patient_count are made of: standalone
\* integers as they are written, with the number each of them denotes,
\* HH:MM:SS clock readings and words.
IntTok(cs, n) == [kind |-> "int", cs |-> cs, val |-> n]
ClockTok(cs) == [kind |-> "clock", cs |-> cs, val |-> Null]
WordTok == [kind |-> "word", cs |-> <<Letter>>, val |-> Null]


PickToks ==
  {IntTok(<<"0">>, 0),
   IntTok(<<"0", "3">>, 3),
   IntTok(<<"2", "0", "2", "6">>, 2026),
   IntTok(<<"2", "0", "2", "7">>, 2027),
   IntTok(<<"9", "9", "9", "9">>, 9999),
   IntTok(<<"1", "0", "0", "0", "0">>, 10000),
   ClockTok(<<"0", "0", ":", "1", "0", ":", "0", "0">>),
   WordTok}

\* How a piece is joined to the one before it: after a blank, directly
\* (only next to a clock reading), or as the start of the next text.
Glues == {"blank", "none", "text"}
Pieces == [tok : PickToks, glue : Glues]

WellJoined(ps) ==
  /\ ps # <<>> => ps[1].glue = "text"
  /\ \A i \in 2..Len(ps) :
       ps[i].glue = "none" =>
         (ps[i].tok.kind = "clock") # (ps[i - 1].tok.kind = "clock")

PieceSeqs ==
  UNION {{ps \in [1..n -> Pieces] : WellJoined(ps)} : n \in 0..MaxToks}

\* The texts the pieces spell.
RECURSIVE TextsOf(_, _, _)
TextsOf(ps, cur, acc) ==
  IF ps = <<>> THEN Append(acc, cur)
  ELSE CASE ps[1].glue = "blank" ->
              TextsOf(Tail(ps), cur \o <<SP>> \o ps[1].tok.cs, acc)
         [] ps[1].glue = "none" ->
              TextsOf(Tail(ps), cur \o ps[1].tok.cs, acc)
         [] OTHER ->
              TextsOf(Tail(ps), ps[1].tok.cs, Append(acc, cur))

\* ===================================================== parser.py: nodes
MaxNodes == 3     \* nodes of a document
WinBefore == 1    \* the fallback window: pieces of text before the colour
WinAfter == 2     \* name that are in it (120 characters), and after it (220)

\* _norm(s) on the words of the dashboards: accents dropped, upper case;
\* a normalized word stays as it is.  "" is no word.
norm(w) ==
  CASE w = "Pacientes na unidade" -> "PACIENTES NA UNIDADE"
    [] w = "Aguardando regulação" -> "AGUARDANDO REGULACAO"
    [] w = "Atendimento médico" -> "ATENDIMENTO MEDICO"
    [] w = "pacientes" -> "PACIENTES"
    [] w = "Classificação" -> "CLASSIFICACAO"
    [] w = "Azul" -> "AZUL"
    [] w = "Verde" -> "VERDE"
    [] w = "Tempo" -> "TEMPO"
    [] w = "Imediato" -> "IMEDIATO"
    [] w = "Atualizado em" -> "ATUALIZADO EM"
    [] OTHER -> w

\* The strings the parser looks for that a normalized word contains.
Needles(W) ==
  CASE W = "PACIENTES NA UNIDADE" -> {"PACIENTES NA UNIDADE", "PACIENT"}
    [] W = "AGUARDANDO REGULACAO" -> {"AGUARDANDO REGULACAO", "AGUARD"}
    [] W = "ATENDIMENTO MEDICO" -> {"ATENDIMENTO", "MEDICO"}
    [] W = "PACIENTES" -> {"PACIENT"}
    [] W = "CLASSIFICACAO" -> {"CLASSIF"}
    [] W = "AZUL" -> {"AZUL"}
    [] W = "VERDE" -> {"VERDE"}
    [] W = "TEMPO" -> {"TEMPO"}
    [] W = "IMEDIATO" -> {"IMEDIATO"}
    [] W = "ATUALIZADO EM" -> {"ATUALIZADO EM"}
    [] OTHER -> {}

\* A text of a node is a sequence of pieces separated by blanks: words,
\* integers, clock readings, dates.
Wd(w) == [w |-> w, cs |-> <<Letter>>]
Num(cs) == [w |-> "", cs |-> cs]
ClockA == Num(<<"0", "0", ":", "1", "0", ":", "0", "0">>)
ClockB == Num(<<"0", "0", ":", "3", "0", ":", "0", "0">>)
DateA == Num(<<"0", "1", "/", "0", "2", "/", "2", "0", "2", "6">>)

\* The characters of a text.
RECURSIVE Render(_)
Render(toks) ==
  IF toks = <<>> THEN <<>>
  ELSE IF Len(toks) = 1 THEN toks[1].cs
  ELSE toks[1].cs \o <<SP>> \o Render(Tail(toks))

\* _norm(text), word by word
NormText(toks) == [i \in 1..Len(toks) |-> [toks[i] EXCEPT !.w = norm(@)]]

\* `needle in _norm(text)`
Has(toks, needle) ==
  \E i \in 1..Len(toks) : needle \in Needles(norm(toks[i].w))

\* A time of day hh:mm:ss as the number hhmmss; IMEDIATO.
TimeCode(cs) ==
  IntOf(SubSeq(cs, 1, 2) \o SubSeq(cs, 4, 5) \o SubSeq(cs, 7, 8))
Imediato == 1000000

\* re.search(r"\b(\d{2}:\d{2}:\d{2})\b", text): positions of the matches.
ClockMatches(s) ==
  {i \in 1..Len(s) :
     /\ ClockAt(s, i)
     /\ (i = 1 \/ ~IsWordChar(s[i - 1]))
     /\ (i + 8 > Len(s) \/ ~IsWordChar(s[i + 8]))}

Min(S) == CHOOSE x \in S : \A y \in S : x <= y

\* _extract_time(text)
extract_time(toks) ==
  LET s == Render(toks)
      ms == ClockMatches(s)
  IN IF ms # {} THEN TimeCode(SubSeq(s, Min(ms), Min(ms) + 7))
     ELSE IF Has(toks, "IMEDIATO") THEN Imediato
     ELSE Null

\* _extract_updated_at(soup): "ATUALIZADO EM" followed by a date and a
\* time of day; the result is the day and the time as one number.
StampAt(toks, i) ==
  /\ i + 2 <= Len(toks)
  /\ "ATUALIZADO EM" \in Needles(norm(toks[i].w))
  /\ toks[i + 1] = DateA
  /\ ClockMatches(toks[i + 2].cs) = {1} /\ Len(toks[i + 2].cs) = 8

extract_updated_at(toks) ==
  LET ps == {i \in 1..Len(toks) : StampAt(toks, i)}
  IN IF ps = {} THEN Null
     ELSE IntOf(SubSeq(toks[Min(ps) + 1].cs, 1, 2)) * Imediato
            + TimeCode(toks[Min(ps) + 2].cs)

\* A node of the document: its aria-label and its text.
Node(aria, text) == [aria |-> aria, text |-> text]

UnitLabel == <<Wd("Pacientes na unidade")>>
RegLabel == <<Wd("Aguardando regulação")>>
MedLabel == <<Wd("Atendimento médico"), Wd("pacientes")>>
AzulLabel == <<Wd("Classificação"), Wd("Azul")>>

NodeSet ==
  {Node(UnitLabel, <<Num(<<"5">>)>>),
   Node(UnitLabel, <<Num(<<"7">>)>>),
   Node(UnitLabel, <<>>),
   Node(RegLabel, <<Num(<<"4">>)>>),
   Node(RegLabel, <<Num(<<"2", "0", "2", "6">>)>>),
   Node(MedLabel, <<Num(<<"6">>)>>),
   Node(<<Wd("Atendimento médico")>>, <<Num(<<"6">>)>>),
   Node(AzulLabel, <<Num(<<"3">>), ClockB>>),
   Node(AzulLabel, <<Num(<<"4">>)>>),
   Node(AzulLabel, <<ClockA>>),
   Node(<<Wd("Verde"), Wd("Tempo")>>, <<Num(<<"0">>), Wd("Imediato")>>),
   Node(<<>>, <<Wd("Classificação"), Wd("Azul"), Num(<<"8">>), ClockB>>),
   Node(<<>>, <<Wd("Atualizado em"), DateA, ClockA>>)}

\* The markups: documents of at most MaxNodes nodes; the empty markup has
\* none.
Docs == UNION {[1..n -> NodeSet] : n \in 0..MaxNodes}

\* soup.get_text(" ", strip=True): the texts of the nodes, in order.
RECURSIVE BigText(_)
BigText(d) == IF d = <<>> THEN <<>> ELSE d[1].text \o BigText(Tail(d))

\* Mutant of NewOut: classificacoes starts empty.
NewOutNoColors(d) ==
  [updated_at |-> extract_updated_at(BigText(d)),
   pacientes_unidade |-> Null,
   pacientes_regulacao |-> Null,
   pacientes_at_medico |-> Null,
   classificacoes |-> [c \in {} |-> [pacientes |-> Null, tempo_medio |-> Null]]]

\* The dict as parse_upa_dashboard creates it.
NewOut(d) ==
  [updated_at |-> extract_updated_at(BigText(d)),
   pacientes_unidade |-> Null,
   pacientes_regulacao |-> Null,
   pacientes_at_medico |-> Null,
   classificacoes |-> [c \in ColorSet |-> [pacientes |-> Null, tempo_medio |-> Null]]]

\* `"X" in aria or "X" in el_text_norm`
InNode(n, needle) == Has(n.aria, needle) \/ Has(n.text, needle)

\* _pick_patient_count(aria_raw, el_text)
NodeCount(n) == pick_patient_count(<<Render(n.aria), Render(n.text)>>)

\* a or b, on values that are None or a non-empty string
OrElse(a, b) == IF a # Null THEN a ELSE b

\* tempo = _extract_time(aria_raw) or _extract_time(el_text)
\*           or _extract_time(aria) or _extract_time(el_text_norm)
NodeTime(n) ==
  OrElse(extract_time(n.aria),
    OrElse(extract_time(n.text),
      OrElse(extract_time(NormText(n.aria)), extract_time(NormText(n.text)))))

\* The first colour of COLORS the node names, 0 when it names none.
NodeColor(n) ==
  LET cs == {i \in 1..Len(COLORS) : InNode(n, COLORS[i])}
  IN IF cs = {} THEN 0 ELSE Min(cs)

NodeGate(n) ==
  InNode(n, "CLASSIF") \/ InNode(n, "RISCO") \/ InNode(n, "TEMPO")
    \/ InNode(n, "PACIENT")

\* Mutant of FillIfNone: a value found later replaces the one held.
FillAlways(held, found) == IF found # Null THEN found ELSE held

\* `if prev.get(f) is None and v is not None: prev[f] = v`
FillIfNone(held, found) == IF held = Null /\ found # Null THEN found ELSE held

\* One pass of the loop over the aria-label nodes.
node_pass(o, n) ==
  IF n.aria = <<>> THEN o
  ELSE IF InNode(n, "PACIENTES NA UNIDADE")
    THEN [o EXCEPT !.pacientes_unidade = NodeCount(n)]
  ELSE IF InNode(n, "AGUARDANDO REGULACAO")
    THEN [o EXCEPT !.pacientes_regulacao = NodeCount(n)]
  ELSE IF /\ InNode(n, "ATENDIMENTO") /\ InNode(n, "MEDICO")
          /\ (InNode(n, "PACIENT") \/ InNode(n, "AGUARD"))
    THEN [o EXCEPT !.pacientes_at_medico = NodeCount(n)]
  ELSE IF NodeColor(n) = 0 \/ ~NodeGate(n) THEN o
  ELSE LET c == COLORS[NodeColor(n)]
           prev == o.classificacoes[c]
       IN [o EXCEPT !.classificacoes[c] =
             [pacientes |-> FillIfNone(prev.pacientes, NodeCount(n)),
              tempo_medio |-> FillIfNone(prev.tempo_medio, NodeTime(n))]]

\* big_norm.find(c): the place of the first piece of text naming c, 0 when
\* there is none.
FindColor(big, c) ==
  LET ps == {i \in 1..Len(big) : Has(<<big[i]>>, c)}
  IN IF ps = {} THEN 0 ELSE Min(ps)

\* big_text[max(0, idx - 120): idx + 220]
Window(big, p) ==
  SubSeq(big, IF p - WinBefore < 1 THEN 1 ELSE p - WinBefore,
         IF p + WinAfter > Len(big) THEN Len(big) ELSE p + WinAfter)

\* One pass of the fallback loop, for colour c.
fallback_pass(o, big, c) ==
  IF o.classificacoes[c].pacientes # Null \/ FindColor(big, c) = 0 THEN o
  ELSE LET window == Window(big, FindColor(big, c))
       IN IF ~(Has(window, "CLASSIF") \/ Has(window, "RISCO") \/ Has(window, "TEMPO"))
          THEN o
          ELSE [o EXCEPT !.classificacoes[c] =
                  [pacientes |-> pick_patient_count(<<Render(window)>>),
                   tempo_medio |-> OrElse(@.tempo_medio, extract_time(window))]]

\* ======================================================== state variables
VARIABLES
  file,        \* contents of CACHE_FILE
  now,         \* wall clock, what _now() returns
  hist,        \* SpecCache: the last cache call and what it returned
  lastSet,     \* SpecCache: the last set_cached that returned, while the
               \* store has not been written since
  mode,        \* fetch_html: the mode argument, stripped and lowercased
  retries,     \* fetch_html: the retries argument
  fpc,         \* fetch_html: where control is
  attempt,     \* fetch_html_requests: the loop variable
  gets,        \* number of _SESSION.get calls issued
  last_status, \* fetch_html_requests: last_status
  last_exc,    \* fetch_html_requests: last_exc is set
  lastResp,    \* while the loop runs: outcome of the latest GET
  prevResp,    \* while the loop runs: outcome of the GET before it
  httpRes,     \* how fetch_html_requests ended
  sess,        \* the browser session: "none", "live", "quit"
  driver,      \* fetch_html_selenium_powerbi: driver is not None
  sel_exc,     \* fetch_html_selenium_powerbi: last_exc ("" is None)
  ctx,         \* browsing context: 0 top-level, i inside iframes[i]
  iframes,     \* the elements _collect_iframe_elements returned
  idx,         \* the probing loop's idx
  main_html,   \* fetch_html_selenium_powerbi: main_html, while it is
               \* read
  shown,       \* the markup _wait_powerbi_ready found shell-ready after
               \* the navigation to best_src
  ret,         \* the value of a return statement, or the raised error,
               \* while the finally clauses run
  fres,        \* how fetch_html ended
  ttl_storage, \* load_all_upas: the ttl_storage argument
  max_workers, \* load_all_upas: the max_workers argument
  wpc,         \* per target: where its _fetch_one is
  wcache,      \* per target: the dict set_cached loaded and updated
  whtml,       \* per target: res.html
  wparsed,     \* per target: parsed
  wstage,      \* per target: the stage whose exception ended the unit
  fut,         \* per target: its future
  collected,   \* the futures as_completed has yielded
  rows,        \* load_all_upas: rows
  df,          \* the DataFrame load_all_upas returns
  mpc,         \* load_all_upas: where the calling thread is
  file0,       \* the store as load_all_upas found it
  pieces,      \* _pick_patient_count: what its texts are made of
  kpc,         \* _pick_patient_count: called or returned
  picked,      \* _pick_patient_count: the value returned
  doc,         \* parse_upa_dashboard: the nodes of the markup
  out,         \* parse_upa_dashboard: out
  ppc,         \* parse_upa_dashboard: where control is
  ni,          \* the node the first loop is at
  ci,          \* the colour the fallback loop is at
  wm_timeout,  \* _wait_for_metrics_loaded: timeout, in ticks
  wm_elapsed,  \* time.time() - t0, in ticks
  wm_src,      \* src, what the latest poll read
  wm_pc        \* _wait_for_metrics_loaded: where control is

cacheVars == <<file, now, hist, lastSet>>
httpVars == <<attempt, gets, last_status, last_exc, lastResp, prevResp, httpRes>>
selVars ==
  <<sess, driver, sel_exc, ctx, iframes, idx, main_html, shown, ret>>
fetchVars == <<mode, retries, fpc, httpVars, selVars, fres>>

coordVars == <<ttl_storage, max_workers, wpc, wcache, whtml, wparsed, wstage,
               fut, collected, rows, df, mpc, file0>>

pickVars == <<pieces, kpc, picked>>
nodeVars == <<doc, out, ppc, ni, ci>>
parseVars == <<pickVars, nodeVars>>
waitVars == <<wm_timeout, wm_elapsed, wm_src, wm_pc>>

vars == <<cacheVars, fetchVars, coordVars, parseVars, waitVars>>

\* The variables of the other specifications, at rest.
IdleCache ==
  /\ file = MissingFile
  /\ now = 0
  /\ hist = [op |-> "none", key |-> 0, ttl |-> 0, t |-> 0, res |-> RetNone]
  /\ lastSet = [valid |-> FALSE, key |-> 0, v |-> NoData, t |-> 0]

NoResp == [exc |-> FALSE, status |-> 0]

NoDict == [k \in {} |-> FalsyItem]
NoPage == [patients |-> 0]

IdleCoord ==
  /\ ttl_storage = 0
  /\ max_workers = 0
  /\ wpc = [i \in Targets |-> "idle"]
  /\ wcache = [i \in Targets |-> NoDict]
  /\ whtml = [i \in Targets |-> NoPage]
  /\ wparsed = [i \in Targets |-> NoData]
  /\ wstage = [i \in Targets |-> ""]
  /\ fut = [i \in Targets |-> FutPending]
  /\ collected = {}
  /\ rows = <<>>
  /\ df = <<>>
  /\ mpc = "idle"
  /\ file0 = MissingFile

IdlePick ==
  /\ pieces = <<>>
  /\ kpc = "idle"
  /\ picked = Null

IdleNodes ==
  /\ doc = <<>>
  /\ out = NewOut(<<>>)
  /\ ppc = "idle"
  /\ ni = 0
  /\ ci = 0

IdleParse == IdlePick /\ IdleNodes

IdleWait ==
  /\ wm_timeout = 0
  /\ wm_elapsed = 0
  /\ wm_src = EmptyDoc
  /\ wm_pc = "idle"

IdleFetch ==
  /\ mode = "powerbi"
  /\ retries = 0
  /\ fpc = "idle"
  /\ attempt = 0
  /\ gets = 0
  /\ last_status = 0
  /\ last_exc = FALSE
  /\ lastResp = NoResp
  /\ prevResp = NoResp
  /\ httpRes = Pending
  /\ sess = "none"
  /\ driver = FALSE
  /\ sel_exc = ""
  /\ ctx = 0
  /\ iframes = <<>>
  /\ idx = 0
  /\ main_html = EmptyDoc
  /\ shown = EmptyDoc
  /\ ret = Pending
  /\ fres = Pending

\* ============================================================ SpecCache
\* One caller, one call at a time, on a store found in any condition.  hist
\* holds a call and its result from the call's return until the caller goes
\* on.
NoCall == [op |-> "none", key |-> 0, ttl |-> 0, t |-> 0, res |-> RetNone]
NoSet == [valid |-> FALSE, key |-> 0, v |-> NoData, t |-> 0]

\* Items a store written by something else may hold under a key.
ForeignItems ==
  {FalsyItem, ScalarItem, Rec(NoTs, Metrics(1)), Rec(BadTs, Metrics(1)),
   Rec(0, NoData)}

WrittenItems == {Rec(ts, d) : ts \in Times, d \in Data}

InitFiles ==
  {MissingFile, GarbageFile, NonMapFile, MapFile(<<>>)}
    \cup {MapFile(<<(<<k, it>>)>>) : k \in Keys, it \in ForeignItems \cup WrittenItems}

InitCache ==
  /\ file \in InitFiles
  /\ now \in Times
  /\ hist = NoCall
  /\ lastSet = NoSet
  /\ IdleFetch
  /\ IdleCoord
  /\ IdleParse
  /\ IdleWait

\* get_cached(k, ttl)
CacheGet(k, ttl) ==
  /\ hist.op = "none"
  /\ hist' = [op |-> "get", key |-> k, ttl |-> ttl, t |-> now,
              res |-> get_cached(file, k, ttl, now)]
  /\ UNCHANGED <<file, now, lastSet, fetchVars, coordVars, parseVars, waitVars>>

\* set_cached(k, v): load, assign, save.
CacheSet(k, v, outcome) ==
  LET upd == set_cached_update(file, k, v, now)
      raised == ~upd.ok \/ outcome # "ok"
  IN /\ hist.op = "none"
     /\ file' = IF upd.ok THEN save_cache(file, upd.d, outcome) ELSE file
     /\ hist' = [op |-> "set", key |-> k, ttl |-> 0, t |-> now,
                 res |-> IF ~upd.ok THEN Raise("TypeError")
                         ELSE IF outcome # "ok" THEN Raise("OSError")
                         ELSE RetNone]
     /\ lastSet' = IF ~raised THEN [valid |-> TRUE, key |-> k, v |-> v, t |-> now]
                   ELSE IF file' # file THEN NoSet
                   ELSE lastSet
     /\ UNCHANGED <<now, fetchVars, coordVars, parseVars, waitVars>>

\* The caller has taken the result of its call and goes on.
CacheReturn ==
  /\ hist.op # "none"
  /\ hist' = NoCall
  /\ UNCHANGED <<file, now, lastSet, fetchVars, coordVars, parseVars, waitVars>>

\* time passes between two calls
CacheTick ==
  /\ hist.op = "none"
  /\ now < MaxNow
  /\ now' = now + 1
  /\ UNCHANGED <<file, hist, lastSet, fetchVars, coordVars, parseVars, waitVars>>

NextCache ==
  \/ \E k \in Keys, ttl \in Ttls : CacheGet(k, ttl)
  \/ \E k \in Keys, v \in Data, o \in SaveOutcomes : CacheSet(k, v, o)
  \/ CacheReturn
  \/ CacheTick

SpecCache == InitCache /\ [][NextCache]_vars

\* ---------------------------------------------------- SpecCache: claims
\* The item the store holds under the key of the last call, when the store
\* decodes to an object with that member.
HasItem(k) == file.kind = "map" /\ k \in DOMAIN JsonLoad(file.body)
ItemOf(k) == JsonLoad(file.body)[k]

\* An item of the shape set_cached writes: numeric _ts and a data member.
IsWritten(it) == it.shape = "rec" /\ it.ts >= 0 /\ it.data # NoData

\* A step in which a get_cached call is made and returns.
GetStep == hist.op = "none" /\ hist'.op = "get"

\* C7 (state part): the last call was get(k, ttl) at time t on an entry
\* written at T: it returned the entry's value exactly when t - T <= ttl,
\* and None otherwise.
TTLHitIffFresh ==
  (hist.op = "get" /\ HasItem(hist.key) /\ IsWritten(ItemOf(hist.key))) =>
     LET it == ItemOf(hist.key)
     IN /\ (hist.res = RetVal(it.data)) <=> (hist.t - it.ts <= hist.ttl)
        /\ (hist.res = RetNone) <=> (hist.t - it.ts > hist.ttl)

\* C7: TTL validity.  get(k, ttl) on an entry written at T is a hit iff
\* now - T <= ttl (hit up to and including T + ttl, miss later), and no
\* get, hit or miss, modifies or deletes anything in the store.
TTLValidity == [](TTLHitIffFresh) /\ [][GetStep => file' = file]_vars

\* C7 witness: a set at T, then a get one tick past T + ttl: a miss, the
\* entry still in the store.
TTLMissWitness ==
  /\ hist.op = "get" /\ hist.res = RetNone
  /\ lastSet.valid /\ lastSet.key = hist.key
  /\ hist.t = lastSet.t + hist.ttl + 1
  /\ HasItem(hist.key) /\ ItemOf(hist.key) = Rec(lastSet.t, lastSet.v)

\* C8: round trip.  A get(k, ttl) that follows a returned set(k, v) with no
\* write in between and ttl larger than the time elapsed returns v,
\* whatever the store held before.
CacheRoundTrip ==
  (hist.op = "get" /\ lastSet.valid /\ lastSet.key = hist.key
     /\ hist.ttl > hist.t - lastSet.t)
  => hist.res = RetVal(lastSet.v)

\* C8 witness: a set of k after time 0, a get of k later still with ttl
\* above the time elapsed returned v, while another key holds an entry with
\* another value.
RoundTripWitness ==
  /\ hist.op = "get" /\ lastSet.valid /\ lastSet.key = hist.key
  /\ hist.t > lastSet.t /\ hist.ttl > hist.t - lastSet.t
  /\ hist.res = RetVal(lastSet.v)
  /\ lastSet.t > 0
  /\ \E k \in Keys : k # hist.key /\ HasItem(k) /\ IsWritten(ItemOf(k))
                     /\ ItemOf(k).data # lastSet.v

\* C9: get fails soft.  Whatever the store holds, get returns a value or
\* None and never raises.
GetFailsSoft == hist.op = "get" => hist.res.kind # "raise"

\* ============================================================ SpecFetch
\* One call fetch_html(url, mode=..., retries=...).
Modes == {"requests", "powerbi", "auto"}

InitFetch ==
  /\ IdleCache
  /\ IdleCoord
  /\ IdleParse
  /\ IdleWait
  /\ mode \in Modes
  /\ retries \in 0..MaxRetries
  /\ fpc = "start"
  /\ attempt = 0
  /\ gets = 0
  /\ last_status = 0
  /\ last_exc = FALSE
  /\ lastResp = NoResp
  /\ prevResp = NoResp
  /\ httpRes = Pending
  /\ sess = "none"
  /\ driver = FALSE
  /\ sel_exc = ""
  /\ ctx = 0
  /\ iframes = <<>>
  /\ idx = 0
  /\ main_html = EmptyDoc
  /\ shown = EmptyDoc
  /\ ret = Pending
  /\ fres = Pending

\* fetch_html dispatches on the mode.
FetchStart ==
  /\ fpc = "start"
  /\ fpc' = IF mode \in {"requests", "auto"} THEN "http" ELSE "mk_driver"
  /\ attempt' = IF mode \in {"requests", "auto"} THEN 1 ELSE attempt
  /\ UNCHANGED <<cacheVars, coordVars, parseVars, waitVars, mode, retries, gets,
                 last_status, last_exc, lastResp, prevResp, httpRes, selVars,
                 fres>>

\* What a GET may come back with: a network exception or a final response.
Responses ==
  {[exc |-> TRUE, status |-> 0, html |-> EmptyDoc]}
    \cup {[exc |-> FALSE, status |-> st, html |-> h] : st \in Statuses, h \in Markups}

\* How fetch_html goes on once fetch_html_requests has ended with r.
AfterHttp(r) ==
  IF mode = "requests" THEN
    /\ fres' = r
    /\ fpc' = "done"
  ELSE IF AutoKeepsDirect(r) THEN
    /\ fres' = r
    /\ fpc' = "done"
  ELSE
    /\ fres' = fres
    /\ fpc' = "mk_driver"

\* fetch_html_requests is left: its locals are gone.
HttpLeft ==
  /\ attempt' = 0
  /\ last_status' = 0
  /\ last_exc' = FALSE
  /\ lastResp' = NoResp
  /\ prevResp' = NoResp

\* One pass of the loop of fetch_html_requests: the GET and what follows.
HttpGet(resp) ==
  /\ fpc = "http"
  /\ MoreAttempts(attempt, HttpRetries(mode, retries))
  /\ gets' = gets + 1
  /\ IF HttpPass(resp) = "return"
     THEN LET r == FetchResult(resp.status, resp.html, "requests", NoSrc)
          IN /\ httpRes' = r
             /\ HttpLeft
             /\ AfterHttp(r)
     ELSE /\ attempt' = attempt + 1
          /\ prevResp' = lastResp
          /\ lastResp' = [exc |-> resp.exc, status |-> resp.status]
          /\ last_status' = IF resp.exc THEN last_status ELSE resp.status
          /\ last_exc' = (last_exc \/ resp.exc \/ resp.status \notin RETRYABLE)
          /\ UNCHANGED <<httpRes, fpc, fres>>
  /\ UNCHANGED <<cacheVars, coordVars, parseVars, waitVars, mode, retries, selVars>>

\* The loop is over: raise RuntimeError(msg).  In auto mode fetch_html
\* swallows the exception (except Exception: pass): that it was raised is
\* all that is left of it.
HttpExhausted ==
  /\ fpc = "http"
  /\ ~MoreAttempts(attempt, HttpRetries(mode, retries))
  /\ LET r == FetchError(MsgHttp, last_status,
                         IF last_exc THEN "last_exc" ELSE "")
     IN /\ httpRes' = IF mode = "auto" THEN FetchError(MsgHttp, 0, "") ELSE r
        /\ HttpLeft
        /\ AfterHttp(r)
  /\ UNCHANGED <<cacheVars, coordVars, parseVars, waitVars, mode, retries, gets, selVars>>

\* An exception raised while e is being handled has e as its __context__.
Chained(err, e) ==
  [f \in DOMAIN err \cup {"context"} |-> IF f = "context" THEN e ELSE err[f]]

\* An exception reaches the outer handler of fetch_html_selenium_powerbi:
\* last_exc = last_exc or e, then raise RuntimeError(... last_exc).
RaiseOuter(e) ==
  /\ sel_exc' = FirstExc(sel_exc, e)
  /\ ret' = Chained(FetchError(MsgSelenium, 0, FirstExc(sel_exc, e)), e)
  /\ fpc' = "finally"

\* _mk_chrome_driver(): webdriver.Chrome(options=opts) starts the session,
\* driver.set_page_load_timeout(70) configures it; either may raise.
SelMkDriver(o) ==
  /\ fpc = "mk_driver"
  /\ CASE o = "ctor_raises" ->
            /\ RaiseOuter("WebDriverException")
            /\ UNCHANGED <<sess, driver>>
       [] o = "config_raises" ->
            /\ sess' = "live"
            /\ RaiseOuter("WebDriverException")
            /\ UNCHANGED driver
       [] OTHER ->
            /\ sess' = "live"
            /\ driver' = TRUE
            /\ fpc' = "open"
            /\ UNCHANGED <<sel_exc, ret>>
  /\ UNCHANGED <<cacheVars, coordVars, parseVars, waitVars, mode, retries, httpVars,
                 main_html, shown, ctx, iframes, idx, fres>>

\* driver.get(url)
SelOpen(o) ==
  /\ fpc = "open"
  /\ IF o = "raises" THEN RaiseOuter("TimeoutException")
     ELSE /\ fpc' = "settle"
          /\ UNCHANGED <<sel_exc, ret>>
  /\ UNCHANGED <<cacheVars, coordVars, parseVars, waitVars, mode, retries, httpVars,
                 main_html, shown, sess, driver, ctx, iframes, idx, fres>>

\* _try_click_cookie and the scroll sequence: every exception is swallowed.
SelSettle ==
  /\ fpc = "settle"
  /\ fpc' = "check_top"
  /\ UNCHANGED <<cacheVars, coordVars, parseVars, waitVars, mode, retries, httpVars,
                 selVars, fres>>

\* main_html = driver.page_source and the test on it.  When it does not
\* show the report main_html is not read again.
SelCheckTop(o, html) ==
  /\ fpc = "check_top"
  /\ IF o = "source_raises" THEN
       /\ RaiseOuter("WebDriverException")
       /\ UNCHANGED main_html
     ELSE IF is_powerbi_rendered(Lower(html)) THEN
       /\ main_html' = html
       /\ fpc' = "top_wait"
       /\ UNCHANGED <<sel_exc, ret>>
     ELSE
       /\ main_html' = EmptyDoc
       /\ fpc' = "collect"
       /\ UNCHANGED <<sel_exc, ret>>
  /\ UNCHANGED <<cacheVars, coordVars, parseVars, waitVars, mode, retries, httpVars, sess,
                 driver, ctx, iframes, idx, shown, fres>>

\* Mutant of TopWaitExc: the wait for the metrics raises on its timeout.
TopWaitExcOnTimeout(o) ==
  CASE o = "source_raises" -> "WebDriverException"
    [] o = "metrics_timeout" -> "TimeoutException"
    [] OTHER -> ""

\* What _wait_for_metrics_loaded and the reading of page_source raise: the
\* driver's exception when page_source fails, nothing ("") when the wait
\* runs into its timeout or finds the metrics.
TopWaitExc(o) == IF o = "source_raises" THEN "WebDriverException" ELSE ""

\* The top-level document shows the report: _wait_for_metrics_loaded, which
\* swallows a timeout, then main_html = driver.page_source again and
\* return it.
SelTopWait(o, html2) ==
  /\ fpc = "top_wait"
  /\ IF TopWaitExc(o) # "" THEN
       /\ RaiseOuter(TopWaitExc(o))
       /\ UNCHANGED main_html
     ELSE
       /\ main_html' = html2
       /\ ret' = FetchResult(200, html2, "selenium-main", NoSrc)
       /\ fpc' = "finally"
       /\ UNCHANGED sel_exc
  /\ UNCHANGED <<cacheVars, coordVars, parseVars, waitVars, mode, retries, httpVars, sess,
                 driver, ctx, iframes, idx, shown, fres>>

\* Where the probing loop goes with the elements els and index i.
LoopHead(els, i) == IF i <= Len(els) THEN "probe_begin" ELSE "fallback"

\* _collect_iframe_elements(driver, timeout=25)
SelCollect(o, els) ==
  /\ fpc = "collect"
  /\ IF o = "timeout" THEN
       /\ RaiseOuter("RuntimeError: no iframe")
       /\ UNCHANGED <<iframes, idx>>
     ELSE
       /\ iframes' = els
       /\ idx' = 1
       /\ fpc' = LoopHead(els, 1)
       /\ UNCHANGED <<sel_exc, ret>>
  /\ UNCHANGED <<cacheVars, coordVars, parseVars, waitVars, mode, retries, httpVars,
                 main_html, shown, sess, driver, ctx, fres>>

\* Top of the loop body: src = _get_iframe_src(iframe), then
\* switch_to.default_content() and switch_to.frame(iframe).
SelProbeBegin(o) ==
  /\ fpc = "probe_begin"
  /\ CASE o = "src_raises" ->
            /\ RaiseOuter("StaleElementReferenceException")
            /\ UNCHANGED ctx
       [] o = "default_raises" ->
            /\ sel_exc' = "WebDriverException"
            /\ fpc' = "probe_end"
            /\ UNCHANGED <<ctx, ret>>
       [] o = "frame_raises" ->
            /\ ctx' = 0
            /\ sel_exc' = "WebDriverException"
            /\ fpc' = "probe_end"
            /\ UNCHANGED ret
       [] OTHER ->
            /\ ctx' = idx
            /\ fpc' = "probe_wait"
            /\ UNCHANGED <<sel_exc, ret>>
  /\ UNCHANGED <<cacheVars, coordVars, parseVars, waitVars, mode, retries, httpVars,
                 main_html, shown, sess, driver, iframes, idx, fres>>

\* Inside the frame: _wait_powerbi_ready, _wait_for_metrics_loaded, then
\* html_in = driver.page_source and the test on it.
SelProbeWait(o, html_in) ==
  /\ fpc = "probe_wait"
  /\ CASE o = "shell_timeout" ->
            /\ sel_exc' = "TimeoutException"
            /\ UNCHANGED ret
       [] o = "source_raises" ->
            /\ sel_exc' = "WebDriverException"
            /\ UNCHANGED ret
       [] OTHER ->
            /\ ret' = IF is_powerbi_rendered(Lower(html_in))
                      THEN FetchResult(200, html_in, "selenium-iframe",
                                       get_iframe_src(iframes[idx]))
                      ELSE ret
            /\ UNCHANGED sel_exc
  /\ fpc' = "probe_end"
  /\ UNCHANGED <<cacheVars, coordVars, parseVars, waitVars, mode, retries, httpVars,
                 main_html, shown, sess, driver, ctx, iframes, idx, fres>>

\* The finally clause of the loop body: switch_to.default_content(), its
\* exception swallowed; then the return takes effect or the loop goes on.
SelProbeEnd(o) ==
  /\ fpc = "probe_end"
  /\ ctx' = IF o = "restore_raises" THEN ctx ELSE 0
  /\ IF ret.kind = "ok" THEN
       /\ fpc' = "finally"
       /\ UNCHANGED idx
     ELSE
       /\ idx' = idx + 1
       /\ fpc' = LoopHead(iframes, idx + 1)
  /\ UNCHANGED <<cacheVars, coordVars, parseVars, waitVars, mode, retries, httpVars,
                 main_html, shown, sess, driver, sel_exc, iframes, ret, fres>>

\* After the loop: pick best_src, navigate to it and wait for the report:
\* _wait_powerbi_ready polls page_source until it is shell-ready, html is
\* what its last poll read; then the wait for the metrics, and html2 =
\* driver.page_source is returned.
SelFallback(o, html, html2) ==
  /\ fpc = "fallback"
  /\ LET best_src == BestSrc(iframes)
     IN CASE o = "src_raises" ->
               /\ RaiseOuter("StaleElementReferenceException")
               /\ UNCHANGED <<ctx, shown>>
          [] best_src = NoSrc ->
               /\ RaiseOuter("RuntimeError: no usable src")
               /\ UNCHANGED <<ctx, shown>>
          [] o = "get_raises" ->
               /\ sel_exc' = "WebDriverException"
               /\ ret' = FetchError(MsgSelenium, 0, "WebDriverException")
               /\ fpc' = "finally"
               /\ UNCHANGED <<ctx, shown>>
          [] ~is_powerbi_rendered(Lower(html)) ->
               /\ ctx' = 0
               /\ sel_exc' = "TimeoutException"
               /\ ret' = FetchError(MsgSelenium, 0, "TimeoutException")
               /\ fpc' = "finally"
               /\ UNCHANGED shown
          [] OTHER ->
               /\ ctx' = 0
               /\ shown' = html
               /\ ret' = FetchResult(200, html2, "selenium-iframe", best_src)
               /\ fpc' = "finally"
               /\ UNCHANGED sel_exc
  /\ UNCHANGED <<cacheVars, coordVars, parseVars, waitVars, mode, retries, httpVars,
                 main_html, sess, driver, iframes, idx, fres>>

\* The outer finally: driver.quit() when driver is not None, its exception
\* swallowed; then the function returns or raises.
SelFinally ==
  /\ fpc = "finally"
  /\ sess' = IF driver THEN "quit" ELSE sess
  /\ fres' = ret
  /\ fpc' = "done"
  /\ UNCHANGED <<cacheVars, coordVars, parseVars, waitVars, mode, retries, httpVars,
                 main_html, shown, driver, sel_exc, ctx, iframes, idx, ret>>

NextFetch ==
  \/ FetchStart
  \/ \E resp \in Responses : HttpGet(resp)
  \/ HttpExhausted
  \/ \E o \in {"ctor_raises", "config_raises", "ok"} : SelMkDriver(o)
  \/ \E o \in {"raises", "ok"} : SelOpen(o)
  \/ SelSettle
  \/ \E o \in {"source_raises", "ok"}, h \in Markups : SelCheckTop(o, h)
  \/ \E o \in {"source_raises", "metrics_timeout", "ok"}, h2 \in Markups :
       SelTopWait(o, h2)
  \/ \E o \in {"timeout", "ok"}, els \in FrameLists : SelCollect(o, els)
  \/ \E o \in {"src_raises", "default_raises", "frame_raises", "entered"} :
       SelProbeBegin(o)
  \/ \E o \in {"shell_timeout", "source_raises", "read"}, h \in Markups :
       SelProbeWait(o, h)
  \/ \E o \in {"restore_raises", "restored"} : SelProbeEnd(o)
  \/ \E o \in {"src_raises", "get_raises", "ok"}, h \in Markups, h2 \in Markups :
       SelFallback(o, h, h2)
  \/ SelFinally

SpecFetch == InitFetch /\ [][NextFetch]_vars

\* ---------------------------------------------------- SpecFetch: claims
SelPcs ==
  {"mk_driver", "open", "settle", "check_top", "top_wait", "collect", "probe_begin",
   "probe_wait", "probe_end", "fallback", "finally"}

\* C4: the browsing session is torn down on every exit path.  Whenever
\* fetch_html_selenium_powerbi has returned or raised, no session it
\* created is still live.
SessionTornDown == fpc = "done" => sess # "live"

\* C5: DirectHttp retries only retryable statuses.  A further GET is issued
\* only after a response with status 429, 502, 503 or 504 (or after a
\* network exception); any other non-2xx status ends the fetch.
RetriesOnlyRetryable ==
  prevResp # NoResp => (prevResp.exc \/ prevResp.status \in RETRYABLE)

\* C6 as stated: in modes DirectHttp and Auto the number of GETs never
\* exceeds the retries argument.
GetsWithinRetriesArg == mode \in {"requests", "auto"} => gets <= retries

\* C6 as amended: the number of GETs never exceeds the retries argument in
\* mode DirectHttp and never exceeds 2 in mode Auto, which passes retries=2
\* whatever the argument; every pass of the loop issues one GET and moves
\* the loop variable on, and once the loop is left the stage has ended with
\* a FetchResult or an error.
GetsWithinBudget ==
  LET budget == IF mode = "requests" THEN retries
                ELSE IF mode = "auto" THEN AutoRetries ELSE 0
  IN /\ gets <= budget
     /\ fpc = "http" => (attempt = gets + 1 /\ attempt <= budget + 1
                           /\ httpRes.kind = "pending")
     /\ (mode # "powerbi" /\ fpc \notin {"start", "http"})
          => httpRes.kind \in {"ok", "error"}

\* C6 witness: Auto mode called with retries=1 has issued two GETs and the
\* direct stage has ended in its error.
AutoBudgetWitness ==
  /\ mode = "auto" /\ retries = 1
  /\ gets = AutoRetries
  /\ httpRes.kind = "error"

\* C10: Auto mode ordering and fallback.  No session exists before the
\* DirectHttp attempt has ended; the call returns the DirectHttp result
\* exactly when that attempt succeeded with shell-ready markup, and then no
\* session was ever opened; in every other case the outcome is the one the
\* rendered pipeline produced.
AutoOrdering ==
  mode = "auto" =>
    /\ (sess # "none" \/ fpc \in SelPcs) =>
          /\ gets >= 1
          /\ httpRes.kind \in {"ok", "error"}
          /\ ~(httpRes.kind = "ok" /\ is_powerbi_rendered(Lower(httpRes.html)))
    /\ fpc = "done" =>
          IF httpRes.kind = "ok" /\ is_powerbi_rendered(Lower(httpRes.html))
          THEN fres = httpRes /\ fres.via = "requests" /\ sess = "none"
          ELSE /\ fres.kind \in {"ok", "error"}
               /\ fres = ret
               /\ fres.kind = "ok" => fres.via \in {"selenium-main", "selenium-iframe"}
               /\ fres.kind = "error" => fres.msg = MsgSelenium

\* C10 witness: the download succeeded, its markup was not shell-ready, and
\* the call returned what the rendered pipeline found inside a frame.
AutoFallbackWitness ==
  /\ mode = "auto" /\ fpc = "done"
  /\ httpRes.kind = "ok" /\ httpRes.html = PlainDoc
  /\ fres.kind = "ok" /\ fres.via = "selenium-iframe" /\ fres.html = ReportDoc

\* ================================================================= Spec
\* load_all_upas(ttl_storage, max_workers): the pool's workers run
\* _fetch_one for the targets, the calling thread collects the futures.
\* The store as a run may find it: unusable, or holding entries written at
\* time 0 for a dropped target and for none, one or all of the targets.  The
\* run happens at time 1: the entries are fresh when ttl_storage >= 1.
CoordInitFiles ==
  {MissingFile, GarbageFile, NonMapFile}
    \cup {MapFile(JsonDump([k \in {OldUrl} \cup ks |-> Rec(0, Metrics(0))])) :
            ks \in {{}, {1}, Targets}}

Init ==
  /\ file \in CoordInitFiles
  /\ file0 = file
  /\ now = 1
  /\ hist = NoCall
  /\ lastSet = NoSet
  /\ IdleFetch
  /\ IdleParse
  /\ IdleWait
  /\ ttl_storage \in Ttls
  /\ max_workers \in 1..MaxWorkers
  /\ wpc = [i \in Targets |-> "queued"]
  /\ wcache = [i \in Targets |-> NoDict]
  /\ whtml = [i \in Targets |-> NoPage]
  /\ wparsed = [i \in Targets |-> NoData]
  /\ wstage = [i \in Targets |-> ""]
  /\ fut = [i \in Targets |-> FutPending]
  /\ collected = {}
  /\ rows = <<>>
  /\ df = <<>>
  /\ mpc = "collect"

\* Mutant of Running: a worker thread is not given back when its work item
\* ends.
RunningNeverFreed == {i \in Targets : wpc[i] # "queued"}

\* The work items worker threads are busy with.
Running == {i \in Targets : wpc[i] \notin {"queued", "done"}}

\* _fetch_one returns row r.
Returns(i, r) ==
  /\ fut' = [fut EXCEPT ![i] = FutRow(r)]
  /\ wpc' = [wpc EXCEPT ![i] = "done"]
  /\ wstage' = wstage

\* Mutant of Raises: the exception is swallowed and the unit goes on to
\* set_cached.
RaisesGoesOn(i, stage, e) ==
  /\ fut' = fut
  /\ wpc' = [wpc EXCEPT ![i] = "set_load"]
  /\ wstage' = [wstage EXCEPT ![i] = stage]

\* _fetch_one raises e out of the given stage.
Raises(i, stage, e) ==
  /\ fut' = [fut EXCEPT ![i] = FutExc(e)]
  /\ wpc' = [wpc EXCEPT ![i] = "done"]
  /\ wstage' = [wstage EXCEPT ![i] = stage]

\* A free worker thread takes the next work item off the pool's queue.
WStart(i) ==
  /\ wpc[i] = "queued"
  /\ \A j \in Targets : j < i => wpc[j] # "queued"
  /\ Cardinality(Running) < max_workers
  /\ wpc' = [wpc EXCEPT ![i] = "get"]
  /\ UNCHANGED <<cacheVars, fetchVars, parseVars, waitVars, ttl_storage, max_workers,
                 wcache, whtml, wparsed, wstage, fut, collected, rows, df,
                 mpc, file0>>

\* cached = get_cached(url, ttl_seconds=ttl); on a hit the row is returned.
WGet(i) ==
  /\ wpc[i] = "get"
  /\ LET res == get_cached(file, Registry[i].url, ttl_storage, now)
     IN IF res.kind = "raise" THEN Raises(i, "get", res.exc)
        ELSE IF IsHit(res)
             THEN Returns(i, flatten_row(Registry[i].nome, Registry[i].url, res.v))
        ELSE /\ wpc' = [wpc EXCEPT ![i] = "fetch"]
             /\ UNCHANGED <<fut, wstage>>
  /\ UNCHANGED <<cacheVars, fetchVars, parseVars, waitVars, ttl_storage, max_workers,
                 wcache, whtml, wparsed, collected, rows, df, mpc, file0>>

\* res = fetch_html(url): a FetchResult, or RuntimeError.
WFetch(i, o) ==
  /\ wpc[i] = "fetch"
  /\ IF o = "raises" THEN
       /\ Raises(i, "fetch", MsgSelenium)
       /\ UNCHANGED whtml
     ELSE
       /\ whtml' = [whtml EXCEPT ![i] = Page(i)]
       /\ wpc' = [wpc EXCEPT ![i] = "parse"]
       /\ UNCHANGED <<fut, wstage>>
  /\ UNCHANGED <<cacheVars, fetchVars, parseVars, waitVars, ttl_storage, max_workers,
                 wcache, wparsed, collected, rows, df, mpc, file0>>

\* parsed = parse_upa_dashboard(res.html); BeautifulSoup(html, "lxml")
\* raises when the parser library is not there.
WParse(i, o) ==
  /\ wpc[i] = "parse"
  /\ IF o = "raises" THEN
       /\ Raises(i, "parse", "FeatureNotFound")
       /\ UNCHANGED wparsed
     ELSE
       /\ wparsed' = [wparsed EXCEPT ![i] = parse_upa_dashboard(whtml[i])]
       /\ wpc' = [wpc EXCEPT ![i] = "set_load"]
       /\ UNCHANGED <<fut, wstage>>
  /\ whtml' = [whtml EXCEPT ![i] = NoPage]
  /\ UNCHANGED <<cacheVars, fetchVars, parseVars, waitVars, ttl_storage, max_workers,
                 wcache, collected, rows, df, mpc, file0>>

\* set_cached: cache = load_cache(); cache[url] = {"_ts": _now(), ...}
WSetLoad(i) ==
  /\ wpc[i] = "set_load"
  /\ LET upd == set_cached_update(file, Registry[i].url, wparsed[i], now)
     IN IF ~upd.ok THEN
          /\ Raises(i, "cache", "TypeError")
          /\ UNCHANGED wcache
        ELSE
          /\ wcache' = [wcache EXCEPT ![i] = upd.d]
          /\ wpc' = [wpc EXCEPT ![i] = "set_open"]
          /\ UNCHANGED <<fut, wstage>>
  /\ UNCHANGED <<cacheVars, fetchVars, parseVars, waitVars, ttl_storage, max_workers,
                 whtml, wparsed, collected, rows, df, mpc, file0>>

\* save_cache: os.makedirs and open(CACHE_FILE, "w"), which truncates.
WSetOpen(i, o) ==
  /\ wpc[i] = "set_open"
  /\ IF o = "raises" THEN
       /\ Raises(i, "cache", "OSError")
       /\ wcache' = [wcache EXCEPT ![i] = NoDict]
       /\ UNCHANGED file
     ELSE
       /\ file' = GarbageFile
       /\ wpc' = [wpc EXCEPT ![i] = "set_write"]
       /\ UNCHANGED <<fut, wstage, wcache>>
  /\ UNCHANGED <<now, hist, lastSet, fetchVars, parseVars, waitVars, ttl_storage,
                 max_workers, whtml, wparsed, collected, rows, df, mpc,
                 file0>>

\* save_cache: json.dump and the close that flushes it, from offset 0 of
\* the file as it is now.  Over a file another writer has filled since the
\* truncation the dump lands on top of that text: it reads back as this
\* dump when it covers the other, as garbage when the other's tail sticks
\* out.  Then _fetch_one returns the row.
WSetWrite(i, o) ==
  /\ wpc[i] = "set_write"
  /\ CASE o = "raises" ->
            /\ Raises(i, "cache", "OSError")
            /\ UNCHANGED file
       [] o = "tail_left" ->
            /\ file.kind = "map"
            /\ file' = GarbageFile
            /\ Returns(i, flatten_row(Registry[i].nome, Registry[i].url, wparsed[i]))
       [] OTHER ->
            /\ file' = save_cache(file, wcache[i], "ok")
            /\ Returns(i, flatten_row(Registry[i].nome, Registry[i].url, wparsed[i]))
  /\ wcache' = [wcache EXCEPT ![i] = NoDict]
  /\ UNCHANGED <<now, hist, lastSet, fetchVars, parseVars, waitVars, ttl_storage,
                 max_workers, whtml, wparsed, collected, rows, df, mpc,
                 file0>>

\* One turn of `for fut in as_completed(futures)`.
Collect(i) ==
  /\ mpc = "collect"
  /\ fut[i].kind # "pending"
  /\ i \notin collected
  /\ collected' = collected \cup {i}
  /\ rows' = collect_row(rows, fut[i], Registry[i].nome, Registry[i].url)
  /\ UNCHANGED <<cacheVars, fetchVars, parseVars, waitVars, ttl_storage, max_workers,
                 wpc, wcache, whtml, wparsed, wstage, fut, df, mpc, file0>>

\* All futures are in: build the frame, sort it by name, return it.
Finish ==
  /\ mpc = "collect"
  /\ collected = Targets
  /\ df' = SortByUpa(rows)
  /\ mpc' = "returned"
  /\ UNCHANGED <<cacheVars, fetchVars, parseVars, waitVars, ttl_storage, max_workers,
                 wpc, wcache, whtml, wparsed, wstage, fut, collected, rows,
                 file0>>

Next ==
  \/ \E i \in Targets : WStart(i)
  \/ \E i \in Targets : WGet(i)
  \/ \E i \in Targets, o \in {"raises", "ok"} : WFetch(i, o)
  \/ \E i \in Targets, o \in {"raises", "ok"} : WParse(i, o)
  \/ \E i \in Targets : WSetLoad(i)
  \/ \E i \in Targets, o \in {"raises", "ok"} : WSetOpen(i, o)
  \/ \E i \in Targets, o \in {"raises", "tail_left", "ok"} : WSetWrite(i, o)
  \/ \E i \in Targets : Collect(i)
  \/ Finish

Spec == Init /\ [][Next]_vars

\* --------------------------------------------------------- Spec: claims
\* The miss path of unit i ran to its end: its set_cached returned.
SetReturned(i) ==
  wpc[i] = "done" /\ fut[i].kind = "row" /\ wparsed[i] # NoData

\* No set_cached is under way and none has raised.
SetsQuiet ==
  \A k \in Targets :
    wpc[k] \notin {"set_load", "set_open", "set_write"} /\ wstage[k] # "cache"

StoreNow == load_cache(file).d
Store0 == load_cache(file0).d

\* C1: cache set is safe under concurrency.  Once the set calls of the
\* workers have returned, the store holds url -> parsed for each of them,
\* and every entry that was there before under another key is still there,
\* unchanged.
ConcurrentSetSafe ==
  SetsQuiet =>
    /\ \A i \in Targets :
         SetReturned(i) =>
           /\ file.kind = "map"
           /\ Registry[i].url \in DOMAIN StoreNow
           /\ StoreNow[Registry[i].url].data = wparsed[i]
    /\ (file0.kind = "map" /\ \E i \in Targets : SetReturned(i)) =>
         \A k \in DOMAIN Store0 :
           (\A i \in Targets : SetReturned(i) => Registry[i].url # k)
             => (file.kind = "map" /\ k \in DOMAIN StoreNow
                   /\ StoreNow[k] = Store0[k])

\* The rows of df for target i.
RowsOf(i) == {p \in 1..Len(df) : df[p].upa = Registry[i].nome}
RowOf(i) == df[CHOOSE p \in RowsOf(i) : TRUE]

\* C2: partial failure isolation.  Whatever subset of the units raises, at
\* whatever stage, and in whatever order they complete: every collected
\* future has put one row into rows, load_all_upas returns exactly N rows,
\* one per target; the row of a unit that raised has every metric field
\* null and a non-empty erro, the row of any other unit has no erro.
PartialFailureIsolation ==
  /\ Len(rows) = Cardinality(collected)
  /\ mpc = "returned" =>
       /\ Len(df) = NTargets
       /\ \A i \in Targets :
            /\ Cardinality(RowsOf(i)) = 1
            /\ IF fut[i].kind = "raise"
               THEN /\ \A f \in MetricFields : RowOf(i)[f] = Null
                    /\ "erro" \in DOMAIN RowOf(i)
                    /\ RowOf(i).erro # ""
               ELSE "erro" \notin DOMAIN RowOf(i)

\* C2 witness: a run has returned in which one unit raised in its fetch,
\* another returned its row, and the failed one completed first.
PartialFailureWitness ==
  /\ mpc = "returned"
  /\ \E i, j \in Targets :
       /\ wstage[i] = "fetch" /\ fut[i].kind = "raise"
       /\ fut[j].kind = "row"
       /\ rows[1].upa = Registry[i].nome

\* C3: a cache-write failure does not fail the unit's row.  The row of a
\* unit whose fetch and parse succeeded and whose cache write raised still
\* carries the parsed metrics.
CacheWriteFailureKeepsRow ==
  mpc = "returned" =>
    \A i \in Targets :
      wstage[i] = "cache" =>
        \A p \in RowsOf(i) :
          /\ "erro" \notin DOMAIN df[p]
          /\ df[p] = flatten_row(Registry[i].nome, Registry[i].url, wparsed[i])

\* The row load_all_upas owes target i, given how its unit ended.
OutcomeRow(i) ==
  IF fut[i].kind = "raise"
  THEN error_row(Registry[i].nome, Registry[i].url, fut[i].exc)
  ELSE fut[i].row

\* The targets in ascending order of name.
ByName == [p \in Targets |-> CHOOSE i \in Targets : Registry[i].nome = p]

\* C11: sorted output independent of scheduling.  Whatever order the units
\* completed in and whichever of them raised, the returned sequence is in
\* ascending order of target name and is the sequence of the per-target
\* outcome rows taken by name: it depends on the outcomes only, not on the
\* order of completion.
SortedOutput ==
  mpc = "returned" =>
    /\ \A p \in 1..(Len(df) - 1) : df[p].upa <= df[p + 1].upa
    /\ df = [p \in Targets |-> OutcomeRow(ByName[p])]

\* C11 witness: a run has returned in which the rows were collected in
\* another order than that of the names, one of them an error row.
SortedOutputWitness ==
  /\ mpc = "returned"
  /\ rows # df
  /\ \E p, q \in 1..Len(df) : "erro" \in DOMAIN df[p] /\ "erro" \notin DOMAIN df[q]

\* ============================================================= SpecPick
\* _pick_patient_count called on texts made of integers, clock readings
\* and words.
InitPick ==
  /\ IdleCache
  /\ IdleFetch
  /\ IdleCoord
  /\ IdleNodes
  /\ IdleWait
  /\ pieces \in PieceSeqs
  /\ kpc = "called"
  /\ picked = Null

\* The call runs and returns.
Pick ==
  /\ kpc = "called"
  /\ picked' = pick_patient_count(TextsOf(pieces, <<>>, <<>>))
  /\ kpc' = "returned"
  /\ UNCHANGED <<cacheVars, fetchVars, coordVars, waitVars, nodeVars, pieces>>

NextPick == Pick

SpecPick == InitPick /\ [][NextPick]_vars

\* ----------------------------------------------------- SpecPick: claims
\* The numbers the integer pieces denote, in document order.
RECURSIVE IntVals(_)
IntVals(ps) ==
  IF ps = <<>> THEN <<>>
  ELSE (IF ps[1].tok.kind = "int" THEN <<ps[1].tok.val>> ELSE <<>>)
         \o IntVals(Tail(ps))

InRange(n) == 0 <= n /\ n <= 9999 /\ ~(2020 <= n /\ n <= 2026)
Survivors == SelectSeq(IntVals(pieces), InRange)

\* C13: range filter of pickPatientCount.  The value returned is null or
\* an integer within 0..9999 that is no year of 2020..2026; it is the first
\* integer of the input, in document order, that passes this filter, and
\* null when none does.
PickRangeFilter ==
  kpc = "returned" =>
    /\ picked = Null \/ InRange(picked)
    /\ picked = IF Survivors = <<>> THEN Null ELSE Survivors[1]

\* C13 witness: a year and a number above 9999 come before the integer
\* that is returned.
PickRangeWitness ==
  /\ kpc = "returned"
  /\ Len(pieces) = 3
  /\ pieces[1].tok.val = 2026 /\ pieces[2].tok.val = 10000
  /\ pieces[3].tok = IntTok(<<"0", "3">>, 3)
  /\ picked = 3

\* The pieces without the clock readings: each one is left out, a blank in
\* its place.
RECURSIVE DropClocks(_, _)
DropClocks(ps, gap) ==
  IF ps = <<>> THEN <<>>
  ELSE IF ps[1].tok.kind = "clock" THEN DropClocks(Tail(ps), TRUE)
  ELSE <<[tok |-> ps[1].tok,
          glue |-> IF ps[1].glue = "text" THEN "text"
                   ELSE IF gap THEN "blank" ELSE ps[1].glue]>>
         \o DropClocks(Tail(ps), FALSE)

ClockGroups(cs) == {IntOf(SubSeq(cs, 1, 2)), IntOf(SubSeq(cs, 4, 5)), IntOf(SubSeq(cs, 7, 8))}

\* C14: pickPatientCount ignores clock digits.  What is returned for an
\* input of standalone integers and HH:MM:SS readings is what is returned
\* for the same input with the readings left out: a standalone integer of
\* the input or null, never a digit group of a reading nor digits run
\* together with one, also when the reading is written right next to an
\* integer.
PickIgnoresClocks ==
  kpc = "returned" =>
    /\ picked = pick_patient_count(TextsOf(DropClocks(pieces, FALSE), <<>>, <<>>))
    /\ picked # Null =>
         \E i \in 1..Len(pieces) :
           pieces[i].tok.kind = "int" /\ pieces[i].tok.val = picked

\* C14 witness: the input is "03 00:10:00 p" and 3 was returned, a number
\* that is no digit group of the reading.
PickClockWitness ==
  /\ kpc = "returned"
  /\ Len(pieces) = 3
  /\ pieces[1] = [tok |-> IntTok(<<"0", "3">>, 3), glue |-> "text"]
  /\ pieces[2].tok.kind = "clock" /\ pieces[2].glue = "blank"
  /\ pieces[3] = [tok |-> WordTok, glue |-> "blank"]
  /\ picked = 3
  /\ picked \notin ClockGroups(pieces[2].tok.cs)

\* ============================================================ SpecParse
\* parse_upa_dashboard(html) on a markup of at most MaxNodes nodes: out is
\* created, the loop over the nodes runs, then the fallback loop over
\* COLORS, then out is returned.
InitParse ==
  /\ IdleCache
  /\ IdleFetch
  /\ IdleCoord
  /\ IdlePick
  /\ IdleWait
  /\ doc \in Docs
  /\ out = NewOut(doc)
  /\ ppc = "nodes"
  /\ ni = 1
  /\ ci = 0

\* The body of `for el, aria_raw in _iter_aria_nodes(soup)`; after the
\* last node big_text is taken and the fallback loop begins.
ParseNode ==
  /\ ppc = "nodes"
  /\ ni <= Len(doc)
  /\ out' = node_pass(out, doc[ni])
  /\ ni' = ni + 1
  /\ UNCHANGED <<cacheVars, fetchVars, coordVars, waitVars, pickVars, doc, ppc, ci>>

ParseNodesDone ==
  /\ ppc = "nodes"
  /\ ni > Len(doc)
  /\ ppc' = "fallback"
  /\ ci' = 1
  /\ UNCHANGED <<cacheVars, fetchVars, coordVars, waitVars, pickVars, doc, out, ni>>

\* The body of `for c in COLORS` of the fallback.
ParseFallback ==
  /\ ppc = "fallback"
  /\ ci <= Len(COLORS)
  /\ out' = fallback_pass(out, BigText(doc), COLORS[ci])
  /\ ci' = ci + 1
  /\ UNCHANGED <<cacheVars, fetchVars, coordVars, waitVars, pickVars, doc, ppc, ni>>

\* return out
ParseReturn ==
  /\ ppc = "fallback"
  /\ ci > Len(COLORS)
  /\ ppc' = "returned"
  /\ UNCHANGED <<cacheVars, fetchVars, coordVars, waitVars, pickVars, doc, out, ni, ci>>

NextParse ==
  \/ ParseNode
  \/ ParseNodesDone
  \/ ParseFallback
  \/ ParseReturn

SpecParse == InitParse /\ [][NextParse]_vars

\* ---------------------------------------------------- SpecParse: claims
ScalarFields == {"pacientes_unidade", "pacientes_regulacao", "pacientes_at_medico"}

\* C12: fully-shaped parse result.  At every point of the node pass and of
\* the fallback pass and in the returned value, classificacoes has a key
\* for each of the five colours, with both sub-fields, and out has every
\* scalar field; for the empty markup every scalar field and both
\* sub-fields of every colour are null.
FullyShaped ==
  /\ DOMAIN out = ScalarFields \cup {"updated_at", "classificacoes"}
  /\ DOMAIN out.classificacoes = ColorSet
  /\ ColorSet = {"AZUL", "VERDE", "AMARELO", "LARANJA", "VERMELHO"}
  /\ \A c \in ColorSet : DOMAIN out.classificacoes[c] = {"pacientes", "tempo_medio"}
  /\ doc = <<>> =>
       /\ out.updated_at = Null
       /\ \A f \in ScalarFields : out[f] = Null
       /\ \A c \in ColorSet :
            out.classificacoes[c] = [pacientes |-> Null, tempo_medio |-> Null]

\* C12 witness: the parse of the empty markup has returned.
EmptyMarkupWitness ==
  /\ ppc = "returned" /\ doc = <<>>
  /\ \A c \in ColorSet : out.classificacoes[c].pacientes = Null

\* C15: scalar-metric overwrite guard.  Once a scalar metric holds a
\* non-null value no later step changes it.
ScalarWriteOnce ==
  [][\A f \in ScalarFields : out[f] # Null => out'[f] = out[f]]_vars

\* A step of the fallback loop.
FallbackStep == ppc = "fallback" /\ ci' = ci + 1

\* C16: classification fields are write-once.  Once pacientes or
\* tempo_medio of a colour holds a non-null value no later node and no
\* step of the fallback pass changes it, and the fallback pass leaves alone
\* every colour whose pacientes is not null after the node pass.
ClassWriteOnce ==
  [][\A c \in ColorSet :
       LET held == out.classificacoes[c]
           then == out'.classificacoes[c]
       IN /\ held.pacientes # Null => then.pacientes = held.pacientes
          /\ held.tempo_medio # Null => then.tempo_medio = held.tempo_medio
          /\ (FallbackStep /\ held.pacientes # Null) => then = held]_vars

\* C16 witness: AZUL got its time from a node and no count; a later text
\* with another time and a count was met by the fallback pass, which
\* filled the count and kept the time.
ClassWriteOnceWitness ==
  /\ ppc = "returned"
  /\ doc = <<Node(AzulLabel, <<ClockA>>),
             Node(<<>>, <<Wd("Classificação"), Wd("Azul"), Num(<<"8">>), ClockB>>)>>
  /\ out.classificacoes["AZUL"] = [pacientes |-> 8, tempo_medio |-> TimeCode(ClockA.cs)]

\* ------------------------------------------- SpecFetch: claims, frames
NoUsableSrc == "RuntimeError: no usable src"

\* C17: NoUsableFrame is reported as such.  When the fetch ends because
\* frames were found and none has a usable address, the cause its error
\* reports is that condition, not an exception of an earlier probe.
NoUsableFrameReported ==
  (ret.kind = "error" /\ "context" \in DOMAIN ret /\ ret.context = NoUsableSrc)
    => ret.cause = NoUsableSrc

\* The markup holds container / visual elements of the report itself.
HasContainers(html) == TokVisual \in html

\* C18: shell-readiness of the top-level document is not triggered by a
\* frame reference alone.  The rendered pipeline takes the top-level
\* document for the rendered report, and Auto mode returns the downloaded
\* markup, only when the markup itself holds the report's containers.
TopShellNeedsContainers ==
  /\ fpc = "top_wait" => HasContainers(main_html)
  /\ (mode = "auto" /\ fres.kind = "ok" /\ fres.via = "requests")
       => HasContainers(fres.html)

\* The probing loop is at one of the frames.
AtFrame == 1 <= idx /\ idx <= Len(iframes)

\* C19: frame probing order and isolation.  No timeout or error met while
\* the loop is at frame i ends the fetch; a result produced by the loop is
\* the shell-ready markup of the frame the loop is at, with strategy
\* selenium-iframe and that frame's address.
ProbeIsolation ==
  fpc = "finally" =>
    /\ ret.kind = "error" => ~AtFrame
    /\ (ret.kind = "ok" /\ ret.via = "selenium-iframe" /\ AtFrame) =>
         /\ is_powerbi_rendered(Lower(ret.html))
         /\ ret.iframe_url = get_iframe_src(iframes[idx])

\* C20: context restoration.  Whenever a probe begins and whenever the
\* direct-navigation fallback begins, the browsing context is the
\* top-level document.
ContextRestored == fpc \in {"probe_begin", "fallback"} => ctx = 0

NoFrame == "RuntimeError: no iframe"

\* The step in which _collect_iframe_elements runs into its timeout.
CollectTimesOut == fpc = "collect" /\ fpc' = "finally"

\* The exception an error was raised in the handling of, "" when none.
ContextOf(r) == IF "context" \in DOMAIN r THEN r.context ELSE ""

CheckTopStates ==
  /\ fpc = "top_wait" =>
       /\ is_powerbi_rendered(Lower(main_html))
       /\ iframes = <<>> /\ idx = 0 /\ ctx = 0
  /\ (fpc \in {"finally", "done"} /\ ret.kind = "ok" /\ ret.via = "selenium-main") =>
       /\ ret.iframe_url = NoSrc
       /\ ret.html = main_html
       /\ iframes = <<>> /\ idx = 0 /\ ctx = 0
  /\ (fpc = "finally" /\ ret.kind = "error" /\ is_powerbi_rendered(Lower(main_html))) =>
       /\ ContextOf(ret) = "WebDriverException"
       /\ iframes = <<>>
  /\ (fpc = "finally" /\ ret.kind = "error" /\ ContextOf(ret) = NoFrame) =>
       /\ ret.cause = NoFrame
       /\ iframes = <<>> /\ idx = 0

\* C21: CheckTop short-circuit.  When the top-level markup read after
\* Settle is shell-ready the pipeline waits for the metrics and returns the
\* top-level markup as selenium-main, with no frame address, no frame
\* enumerated or entered; only a failure of the driver, never the timeout
\* of the wait for the metrics, makes this an error.  When the top-level
\* markup is not shell-ready and no frame appears within the wait, the
\* pipeline ends in the no-iframe error.
CheckTopShortCircuit ==
  /\ [](CheckTopStates)
  /\ [][CollectTimesOut =>
          (ret'.kind = "error" /\ ret'.cause = NoFrame /\ ContextOf(ret') = NoFrame)]_vars

\* C21 witness: the pipeline has returned the top-level markup, which shows
\* the report's containers and no metric: the wait for the metrics ran
\* into its timeout.
CheckTopWitness ==
  /\ mode = "powerbi" /\ fpc = "done"
  /\ fres.kind = "ok" /\ fres.via = "selenium-main" /\ fres.html = ShellDoc
  /\ sess = "quit"

\* ---------------------------------------------------------------- C22
\* The resolved addresses of the discovered frames, in discovery order.
FrameSrcs == [i \in 1..Len(iframes) |-> get_iframe_src(iframes[i])]

\* a is the earliest of the longest non-empty addresses of the frame list.
EarliestLongest(a) ==
  \E i \in 1..Len(iframes) :
    /\ FrameSrcs[i] = a
    /\ a # NoSrc
    /\ \A j \in 1..Len(iframes) : Len(FrameSrcs[j]) <= Len(a)
    /\ \A j \in 1..(i - 1) : Len(FrameSrcs[j]) < Len(a)

FallbackResult ==
  /\ mode = "powerbi"
  /\ fpc \in {"finally", "done"}
  /\ ret.kind = "ok"
  /\ ret.via = "selenium-iframe"
  /\ idx = Len(iframes) + 1

\* C22: a result of the direct-frame fallback carries as its frame address
\* the earliest of the longest non-empty addresses of the discovered frames
\* (a function of the frame list alone), and it is returned only when the
\* markup read after navigating to that address was shell-ready.
LongestAddressFallback ==
  FallbackResult =>
    /\ EarliestLongest(ret.iframe_url)
    /\ \A a \in {FrameSrcs[i] : i \in 1..Len(iframes)} :
         EarliestLongest(a) => a = ret.iframe_url
    /\ is_powerbi_rendered(Lower(shown))

\* Two frames share the maximal address length, the later one differs from
\* the earlier one, and the fallback returned a result.
LongestAddressWitness ==
  /\ FallbackResult
  /\ fpc = "done"
  /\ \E i, j \in 1..Len(iframes) :
       /\ i < j
       /\ FrameSrcs[i] # FrameSrcs[j]
       /\ Len(FrameSrcs[i]) = Len(FrameSrcs[j])
       /\ FrameSrcs[i] = ret.iframe_url

\* ===================================================== SpecWait
\* _wait_for_metrics_loaded(driver, timeout), one call of it. Time is
\* counted in ticks of 0.5 s: time.sleep(0.5) takes at least one tick, a
\* read of driver.page_source takes any time up to MaxPollTicks.
InitWait ==
  /\ IdleCache
  /\ IdleFetch
  /\ IdleCoord
  /\ IdleParse
  /\ wm_timeout \in 0..MaxWait
  /\ wm_elapsed = 0
  /\ wm_src = EmptyDoc
  /\ wm_pc = "cond"

\* while (time.time() - t0) < timeout: ... ; return
WaitCond ==
  /\ wm_pc = "cond"
  /\ wm_pc' = IF wm_elapsed < wm_timeout THEN "poll" ELSE "returned"
  /\ UNCHANGED <<cacheVars, fetchVars, coordVars, parseVars, wm_timeout,
                 wm_elapsed, wm_src>>

\* src = driver.page_source or ""; up = src.upper(); return when a pattern
\* is found in up. The read fails (o = "source_raises") or gives html.
WaitPoll(o, html, d) ==
  /\ wm_pc = "poll"
  /\ wm_elapsed' = wm_elapsed + d
  /\ IF o = "source_raises" THEN
       /\ wm_pc' = "raised"
       /\ UNCHANGED wm_src
     ELSE
       /\ wm_src' = html
       /\ wm_pc' = IF metrics_found(Upper(html)) THEN "returned" ELSE "sleep"
  /\ UNCHANGED <<cacheVars, fetchVars, coordVars, parseVars, wm_timeout>>

\* time.sleep(0.5)
WaitSleep(d) ==
  /\ wm_pc = "sleep"
  /\ wm_elapsed' = wm_elapsed + d
  /\ wm_pc' = "cond"
  /\ UNCHANGED <<cacheVars, fetchVars, coordVars, parseVars, wm_timeout, wm_src>>

NextWait ==
  \/ WaitCond
  \/ \E o \in {"source_raises", "ok"}, h \in Markups, d \in 0..MaxPollTicks :
       WaitPoll(o, h, d)
  \/ \E d \in 1..MaxSleepTicks : WaitSleep(d)

SpecWait == InitWait /\ [][NextWait]_vars

\* The thread that called the function keeps running it.
SpecWaitFair == InitWait /\ [][NextWait]_vars /\ WF_vars(NextWait)

\* ---------------------------------------------------------------- C23
WaitOver == wm_pc \in {"returned", "raised"}

\* A return before the timeout, after a poll that read markup carrying no
\* metric text, would be a return nothing explains.
EarlyReturnExplained ==
  (wm_pc = "returned" /\ wm_elapsed < wm_timeout) => TokMetric \in wm_src

\* The loop leaves by its condition only with a normal return, and raises
\* only out of a read of page_source.
TimeoutReturns ==
  /\ (wm_pc = "cond" /\ wm_elapsed >= wm_timeout) => wm_pc' = "returned"
  /\ wm_pc' = "raised" => wm_pc = "poll"

\* C23: _wait_for_metrics_loaded always terminates; it returns before the
\* timeout only when the poll before the return found a metric pattern in
\* the markup, and when the timeout has elapsed with no pattern found it
\* returns normally.
MetricsWaitBounded ==
  /\ <>WaitOver
  /\ [](EarlyReturnExplained)
  /\ [][TimeoutReturns]_vars

\* The timeout elapsed after polls that found nothing, and the function
\* returned.
MetricsWaitWitness ==
  /\ wm_pc = "returned"
  /\ wm_timeout > 0
  /\ wm_elapsed >= wm_timeout
  /\ wm_src = ShellDoc

\* ---------------------------------------------------------------- C24
\* The store holds, for the URL of target i, an entry with metrics that is
\* no older than ttl_storage.
FreshEntry(i) ==
  LET c == load_cache(file)
      u == Registry[i].url
  IN /\ c.isdict
     /\ u \in DOMAIN c.d
     /\ c.d[u].shape = "rec"
     /\ c.d[u].ts \notin {NoTs, BadTs}
     /\ now - c.d[u].ts <= ttl_storage
     /\ c.d[u].data # NoData

FutureOf(i, data) == FutRow(flatten_row(Registry[i].nome, Registry[i].url, data))

\* The order in which a unit goes through its stages.
PipelineEdges ==
  {<<"queued", "get">>, <<"get", "fetch">>, <<"fetch", "parse">>,
   <<"parse", "set_load">>, <<"set_load", "set_open">>,
   <<"set_open", "set_write">>}
    \cup {<<p, "done">> :
            p \in {"get", "fetch", "parse", "set_load", "set_open", "set_write"}}

\* The step taken is a step of unit i.
StepOf(i) == wpc'[i] # wpc[i]

PipelineStep(i) ==
  /\ <<wpc[i], wpc'[i]>> \in PipelineEdges
  \* the read of the store: a fresh entry ends the unit with its row, and
  \* nothing is fetched, parsed or written
  /\ (wpc[i] = "get" /\ FreshEntry(i)) =>
        /\ wpc'[i] = "done"
        /\ fut'[i] = FutureOf(i, load_cache(file).d[Registry[i].url].data)
        /\ whtml'[i] = NoPage /\ wparsed'[i] = NoData /\ wcache'[i] = NoDict
        /\ file' = file
  \* a miss: what is parsed is the page fetched, what is handed to the
  \* store is what was parsed, and the row is built from it after the write
  /\ wpc[i] = "parse" /\ wpc'[i] = "set_load" =>
        wparsed'[i] = parse_upa_dashboard(whtml[i])
  /\ wpc'[i] \in {"set_open", "set_write"} =>
        /\ wparsed'[i] = wparsed[i]
        /\ wcache'[i][Registry[i].url].data = wparsed[i]
  /\ (wpc'[i] = "done" /\ wpc[i] # "get" /\ fut'[i].kind = "row") =>
        /\ wpc[i] = "set_write"
        /\ wcache[i][Registry[i].url].data = wparsed[i]
        /\ fut'[i] = FutureOf(i, wparsed[i])

\* C24: every unit reads the store first; on a fresh entry it returns the
\* flattening of the cached metrics without fetching, parsing or writing;
\* on a miss it fetches, parses, writes and flattens in that order, and
\* what it hands to the store is the parsed metrics its row is built from.
\* The store is written by no other step than a unit's write.
PipelineOrder ==
  [][/\ \A i \in Targets : StepOf(i) => PipelineStep(i)
     /\ file' # file =>
          \E i \in Targets : StepOf(i) /\ wpc[i] \in {"set_open", "set_write"}]_vars

\* The run is over: target 1 was served from a fresh entry, target 2 was
\* fetched, parsed and written, and both have their rows.
PipelineOrderWitness ==
  /\ mpc = "returned"
  /\ file.kind = "map" /\ file0.kind = "map"
  /\ {Registry[1].url, Registry[2].url} \subseteq DOMAIN StoreNow
  /\ Registry[1].url \in DOMAIN Store0
  /\ fut[1] = FutureOf(1, Metrics(0)) /\ wparsed[1] = NoData
  /\ wparsed[2] = parse_upa_dashboard(Page(2)) /\ fut[2] = FutureOf(2, wparsed[2])
  /\ StoreNow[Registry[2].url].data = wparsed[2]
  /\ StoreNow[Registry[1].url] = Store0[Registry[1].url]

\* ---------------------------------------------------------------- C25
\* Unit i ended in an exception of fetch_html or parse_upa_dashboard.
FailedUnit(i) == wpc[i] = "done" /\ wstage[i] \in {"fetch", "parse"}

\* Unit i has metrics to write: its parse returned.
HasParsed(i) == wparsed[i] # NoData

\* The entry under key k is the one the run found there.
AsFound(k) == k \in DOMAIN Store0 /\ StoreNow[k] = Store0[k]

\* Every step of a unit up to its set_cached leaves the store alone; so
\* does the whole of a unit whose fetch or parse raises.
NoWriteBeforeSet ==
  \A i \in Targets :
    (StepOf(i) /\ (wpc[i] \in {"queued", "get", "fetch", "parse"} \/ FailedUnit(i)'))
      => file' = file

\* While no unit has parsed metrics the store is as the run found it; and an
\* entry that is not as it was found holds the metrics a unit parsed for
\* that URL, never anything else.
OnlyParsedStored ==
  /\ (\A i \in Targets : ~HasParsed(i)) => file = file0
  /\ file.kind = "map" =>
       \A k \in DOMAIN StoreNow :
         \/ AsFound(k)
         \/ \E i \in Targets :
              /\ Registry[i].url = k
              /\ HasParsed(i)
              /\ ~FailedUnit(i)
              /\ StoreNow[k] = Rec(now, parse_upa_dashboard(Page(i)))

\* C25: a unit whose fetch or parse raises writes nothing to the store:
\* its steps leave the file as it is, the entries of a readable store are
\* those found at the start or the parsed metrics of a unit that got to
\* set_cached, and no error is stored as a value.
FailedUnitKeepsCache ==
  /\ [](OnlyParsedStored)
  /\ [][NoWriteBeforeSet]_vars

\* The fetch of target 1 raised while its entry was stale, target 2 was
\* fetched and written: the stale entry of target 1 is still as it was.
FailedUnitWitness ==
  /\ mpc = "returned"
  /\ ttl_storage = 0
  /\ file0.kind = "map" /\ file.kind = "map"
  /\ wstage[1] = "fetch" /\ fut[1].kind = "raise"
  /\ HasParsed(2) /\ fut[2].kind = "row"
  /\ Registry[1].url \in DOMAIN Store0
  /\ {Registry[1].url, Registry[2].url} \subseteq DOMAIN StoreNow
  /\ AsFound(Registry[1].url)
  /\ StoreNow[Registry[2].url].data = wparsed[2]

\* ===================================================== SpecLive
\* Progress of a run of load_all_upas and of a call of fetch_html, the work
\* of a unit's fetch stage.  A worker thread that has a work item keeps
\* running it, a free worker takes the next queued item, the calling
\* thread keeps collecting; every library wait (the GET with its timeout,
\* the WebDriverWaits, the page load) ends, in a result or an exception.
UnitNext(i) ==
  \/ WStart(i)
  \/ WGet(i)
  \/ \E o \in {"raises", "ok"} : WFetch(i, o)
  \/ \E o \in {"raises", "ok"} : WParse(i, o)
  \/ WSetLoad(i)
  \/ \E o \in {"raises", "ok"} : WSetOpen(i, o)
  \/ \E o \in {"raises", "tail_left", "ok"} : WSetWrite(i, o)

MainNext == (\E i \in Targets : Collect(i)) \/ Finish

\* retries: int = 3, the default of fetch_html.
DefaultRetries == 3

\* A run that finds no store or a store with an entry for the first target
\* only, with every entry stale or every entry fresh; or a call of
\* fetch_html with the default retries, in the default mode, which is the
\* rendered pipeline _fetch_one runs, or in the mode of the direct-HTTP
\* pipeline.
InitLive ==
  \/ /\ Init
     /\ file = MissingFile \/ DOMAIN load_cache(file).d = {OldUrl, 1}
     /\ ttl_storage \in {0, MaxTtl}
  \/ /\ InitFetch
     /\ mode \in {"powerbi", "requests"}
     /\ retries = DefaultRetries

NextLive == Next \/ NextFetch

SpecLive ==
  /\ InitLive
  /\ [][NextLive]_vars
  /\ \A i \in Targets : WF_vars(UnitNext(i))
  /\ WF_vars(MainNext)
  /\ WF_vars(NextFetch)

\* ---------------------------------------------------------------- C26
UnitOver(i) == wpc[i] = "done" /\ fut[i].kind \in {"row", "raise"}

RunReturned ==
  /\ mpc = "returned"
  /\ collected = Targets
  /\ Len(df) = NTargets
  /\ \A i \in Targets : UnitOver(i)

FetchOver == fpc = "done" /\ fres.kind \in {"ok", "error"}

\* C26: with fair scheduling every unit of a run ends, with its row of
\* metrics or with an exception, and load_all_upas returns after all its
\* units have ended, whatever max_workers >= 1 is; a call of fetch_html
\* ends with a result or an error in every mode.
EventualCompletion == <>(RunReturned \/ FetchOver)

\* One worker thread served both targets, one after the other: the fetch
\* of one raised, the other got its metrics, and the run returned.
EventualCompletionWitness ==
  /\ RunReturned
  /\ max_workers = 1
  /\ fut[1].kind = "raise" /\ wstage[1] = "fetch"
  /\ fut[2].kind = "row" /\ HasParsed(2)

====
